---- MODULE Spec2Model ----
(***************************************************************************)
(* Model of the fmc-lms backend: the users table with its credential       *)
(* bundle (username, password_hash, password_enc), the refresh_sessions    *)
(* table, the role / company / ship scoping of the handlers, and the       *)
(* pg connection pool through which every handler issues its statements.   *)
(*                                                                         *)
(* Values.  SQL NULL / JS null is "NULL" for text columns, 0 for integer   *)
(* columns (ship_id, user_id) and <<>> for username, password_hash and     *)
(* password_enc.  A status text is a record [word, caps, pad]: "Onboard"   *)
(* is [word |-> "onboard", caps |-> TRUE, pad |-> FALSE], " onboard " is   *)
(* [word |-> "onboard", caps |-> FALSE, pad |-> TRUE].                     *)
(***************************************************************************)
EXTENDS Integers, Sequences, FiniteSets, TLC

VARIABLES
  users,       \* users table: user_id -> row, for the rows that exist
  nextUserId,  \* the serial behind users.user_id
  sessions,    \* refresh_sessions table: sequence of [user_id, revoked]
  env,         \* the request inputs in circulation (tokens, payload values)
  last,        \* the last request answered and its response
  pc,          \* per in-flight bulk request: the statement it is about to issue
  loc,         \* per in-flight bulk request: its local variables
  txn,         \* per pool client: the transaction open on that connection
  ships,       \* ships table: ship_id -> row
  certificates,\* certificates table: certificate_id -> row
  assessments, \* assessments table: assessment_id -> row
  incidents,   \* incident_reports table: incident_id -> row
  companies,   \* company table: company_id -> row
  serials      \* the id generators of these five tables

\* the tables beside users and refresh_sessions
resources == <<ships, certificates, assessments, incidents, companies, serials>>

vars == <<users, nextUserId, sessions, env, last, pc, loc, txn, resources>>

-----------------------------------------------------------------------------
(* Bounds *)

MaxUsers == 2
MaxSessions == 2

(* Program constants *)

MAX_USERNAME_TRIES == 5
ROLE_SUPERADMIN == 1
ROLE_ADMIN == 2
ROLE_SUBADMIN == 3
ROLE_CREW == 4

NULL == "NULL"
NoShip == 0
NoText == <<>>
\* an absent refresh_token or reset_token
NoToken == 0

UserIds == 1..MaxUsers

-----------------------------------------------------------------------------
(* Status texts *)

StatusText(word, caps, pad) == [word |-> word, caps |-> caps, pad |-> pad]
NullStatus == StatusText("", FALSE, FALSE)
Onboard == StatusText("onboard", TRUE, FALSE)
OnboardLoose == StatusText("onboard", FALSE, TRUE)
Offboard == StatusText("offboard", TRUE, FALSE)

\* String(s).trim()
Trim(s) == [s EXCEPT !.pad = FALSE]

\* (s ? String(s).trim().toLowerCase() : null)
normalizeStatus(s) ==
  IF s.word = "" THEN NullStatus ELSE StatusText(s.word, FALSE, FALSE)

\* a status test that every status passes
isOnboardAlways(s) == TRUE

isOnboard(s) == normalizeStatus(s) = StatusText("onboard", FALSE, FALSE)

-----------------------------------------------------------------------------
(* Credential engine *)

\* sha256 digest of the plaintext: deterministic, one digest per plaintext
hashPassword(plain) == <<"sha256", plain>>

\* AES-256-GCM token iv.tag.ciphertext under the process-wide key
encryptPassword(plain) == <<"gcm", plain>>

\* usersController's decryptPassword: null for a null token and for a token that does
\* not decrypt under the key in use (its catch), the plaintext otherwise
decryptPassword(enc) == IF enc = NoText \/ enc[1] # "gcm" THEN NULL ELSE enc[2]

\* a stored token written under another PASSWORD_ENC_KEY than the one in use
Undecryptable(enc) == <<"stale", enc[2]>>

\* authController's decryptPassword has no catch: does createDecipheriv, setAuthTag or
\* final throw on this token
decryptPasswordThrows(enc) == enc # NoText /\ enc[1] # "gcm"

\* String(seafarerId).toLowerCase().replace(/[^a-z0-9]/g, ""), on the seafarer ids in use
usernameBase(seafarerId) == IF seafarerId = "S-1" THEN "s1" ELSE seafarerId

\* base.suffix: the seafarer id reduced to [a-z0-9] and 3 random bytes
generateUsername(seafarerId) == {<<usernameBase(seafarerId), k>> : k \in env.suffixes}

UsernameTaken(tbl, name) == \E i \in DOMAIN tbl : tbl[i].username = name

\* the usernames createUniqueUsername can return on table tbl, and "exhausted"
\* when MAX_USERNAME_TRIES candidates in a row are taken
RECURSIVE UsernameTries(_, _, _)
UsernameTries(tbl, seafarerId, i) ==
  IF i = MAX_USERNAME_TRIES
    THEN {<<"exhausted">>}
    ELSE UNION {IF UsernameTaken(tbl, c) THEN UsernameTries(tbl, seafarerId, i + 1) ELSE {c}
                  : c \in generateUsername(seafarerId)}

createUniqueUsername(tbl, seafarerId) == UsernameTries(tbl, seafarerId, 0)

Exhausted == <<"exhausted">>

-----------------------------------------------------------------------------
(* Rows, tokens *)

Row(sid, role, company, ship, status, uname, hash, enc) ==
  [seafarer_id |-> sid, role_id |-> role, company_id |-> company, ship_id |-> ship,
   status |-> status, username |-> uname, password_hash |-> hash, password_enc |-> enc,
   reset_token_hash |-> NoText, reset_token_expires_at |-> NULL]

\* the claims signAccessToken puts into an access token
Principal(uid, role, company, ship) ==
  [user_id |-> uid, role_id |-> role, company_id |-> company, ship_id |-> ship]

\* allowRoles(...allowed): the route's role gate
allowRoles(allowed, caller) == caller.role_id \in allowed

\* an entry of q.options and an entry of req.body.questions; accepted tells whether the
\* database takes the row that the entry's INSERT offers
Option(text, accepted) == [option_text |-> text, accepted |-> accepted]
Question(text, options, accepted) ==
  [question_text |-> text, options |-> options, accepted |-> accepted]

\* req.body.questions: given is FALSE for a body without the field
Questions(given, list) == [given |-> given, list |-> list]
NoQuestions == Questions(FALSE, <<>>)

\* COALESCE($n, column) with an absent parameter written as the column's null
Coalesce(new, old, null) == IF new = null THEN old ELSE new

\* a users table whose only unique constraint is on seafarer_id
UniqueViolationSeafarerOnly(tbl, id, row) ==
  \E j \in DOMAIN tbl \ {id} : tbl[j].seafarer_id = row.seafarer_id

\* unique constraints of the users table: seafarer_id and username
UniqueViolation(tbl, id, row) ==
  \E j \in DOMAIN tbl \ {id} :
     \/ tbl[j].seafarer_id = row.seafarer_id
     \/ row.username # NoText /\ tbl[j].username = row.username

\* a response: the HTTP status, the error text, the {username, password} pairs it
\* hands out, the user rows it returns and the decrypted passwords it discloses
Response(code, error) ==
  [code |-> code, error |-> error, credentials |-> {}, rows |-> {}, plain |-> {},
   reset_token |-> NoToken]
Credential(id, uname, plain) == [user_id |-> id, username |-> uname, password |-> plain]

\* what a handler leaves behind: the users table, the serial, the sessions, the response
Outcome(tbl, serial, sess, resp) ==
  [users |-> tbl, nextUserId |-> serial, sessions |-> sess, resp |-> resp]

Unchanged(resp) == Outcome(users, nextUserId, sessions, resp)

-----------------------------------------------------------------------------
(* usersController: createUser, updateUser, deleteUser *)

canSeePlainPassword(roleId) == roleId \in {1, 2, 3}

\* the plain_password attachPlainPasswordIfAllowed adds to a returned row
attachPlainPasswordIfAllowed(roleId, id, row) ==
  IF canSeePlainPassword(roleId) /\ decryptPassword(row.password_enc) # NULL
    THEN {<<id, decryptPassword(row.password_enc)>>}
    ELSE {}

CreateBody(sid, status, company, ship, role) ==
  [seafarer_id |-> sid, status |-> status, company_id |-> company, ship_id |-> ship,
   role_id |-> role]

\* the INSERT of createUser with the generated username and password
createUserInsert(caller, body, uname, plain) ==
  LET onboardNow == isOnboard(body.status)
      row == Row(body.seafarer_id,
                 IF body.role_id = 0 THEN ROLE_CREW ELSE body.role_id,
                 body.company_id, body.ship_id, body.status,
                 uname,
                 IF onboardNow THEN hashPassword(plain) ELSE NoText,
                 IF onboardNow THEN encryptPassword(plain) ELSE NoText)
      id == nextUserId
  IN  IF uname = Exhausted
        THEN Unchanged(Response(500, "Failed to create user"))
      ELSE IF UniqueViolation(users, id, row)
        THEN Outcome(users, nextUserId + 1, sessions,
                     Response(409, "Duplicate seafarer_id or username"))
      ELSE Outcome(users @@ (id :> row), nextUserId + 1, sessions,
                   [Response(201, "") EXCEPT
                      !.rows = {id},
                      !.plain = attachPlainPasswordIfAllowed(caller.role_id, id, row),
                      !.credentials = IF onboardNow THEN {Credential(id, uname, plain)} ELSE {}])

createUserResults(caller, body) ==
  IF ~allowRoles({1, 2, 3}, caller)
    THEN {Unchanged(Response(403, "Forbidden"))}
    ELSE LET onboardNow == isOnboard(body.status)
             names == IF onboardNow
                        THEN createUniqueUsername(users, body.seafarer_id)
                        ELSE {NoText}
             plains == IF onboardNow THEN env.passwords ELSE {NULL}
         IN  {createUserInsert(caller, body, n, p) : n \in names, p \in plains}

UpdateBody(sid, status, company, ship) ==
  [seafarer_id |-> sid, status |-> status, company_id |-> company, ship_id |-> ship]

\* a handler without the generate-once guard
hasCredsNever(row) == FALSE

\* const hasCreds = !!(current.username && current.password_hash)
hasCreds(row) == row.username # NoText /\ row.password_hash # NoText

\* if (nextOnboard && !hasCreds): does updateUser generate a bundle
updateUserGenerates(current, body) ==
  LET nextStatus == IF body.status # NullStatus THEN body.status ELSE current.status
  IN  isOnboard(nextStatus) /\ ~hasCreds(current)

\* the UPDATE of updateUser with the generated username and password (NoText, NULL
\* when none was generated)
updateUserWrite(id, body, uname, plain) ==
  LET cur == users[id]
      gen == uname # NoText
      row == [cur EXCEPT
                !.seafarer_id = Coalesce(body.seafarer_id, @, NULL),
                !.status = Coalesce(body.status, @, NullStatus),
                !.username = Coalesce(uname, @, NoText),
                !.password_hash = Coalesce(IF gen THEN hashPassword(plain) ELSE NoText, @, NoText),
                !.password_enc = Coalesce(IF gen THEN encryptPassword(plain) ELSE NoText, @, NoText),
                !.ship_id = Coalesce(body.ship_id, @, NoShip),
                !.company_id = Coalesce(body.company_id, @, NULL)]
  IN  IF uname = Exhausted
        THEN Unchanged(Response(500, "Failed to update user"))
      ELSE IF UniqueViolation(users, id, row)
        THEN Unchanged(Response(409, "Duplicate seafarer_id or username"))
      ELSE Outcome([users EXCEPT ![id] = row], nextUserId, sessions,
                   [Response(200, "") EXCEPT
                      !.credentials = IF gen THEN {Credential(id, uname, plain)} ELSE {}])

updateUserResults(caller, id, body) ==
  IF ~allowRoles({1, 2, 3}, caller)
    THEN {Unchanged(Response(403, "Forbidden"))}
  ELSE IF id \notin DOMAIN users
    THEN {Unchanged(Response(404, "User not found"))}
  ELSE LET gen == updateUserGenerates(users[id], body)
           sidForUsername == Coalesce(body.seafarer_id, users[id].seafarer_id, NULL)
           names == IF gen THEN createUniqueUsername(users, sidForUsername) ELSE {NoText}
           plains == IF gen THEN env.passwords ELSE {NULL}
       IN  {updateUserWrite(id, body, n, p) : n \in names, p \in plains}

deleteUserResults(caller, id) ==
  IF ~allowRoles({1, 2}, caller)
    THEN {Unchanged(Response(403, "Forbidden"))}
  ELSE IF id \notin DOMAIN users
    THEN {Unchanged(Response(404, "User not found"))}
  ELSE {Outcome([j \in DOMAIN users \ {id} |-> users[j]], nextUserId, sessions,
                Response(200, ""))}

-----------------------------------------------------------------------------
(* usersController: bulkUpdateUserStatus *)

BulkBody(ids, status, remove) ==
  [user_ids |-> ids, status |-> status, remove_credentials |-> remove]

isTargetOnboard(body) == isOnboard(Trim(body.status))
isTargetOffboard(body) ==
  normalizeStatus(Trim(body.status)) = StatusText("offboard", FALSE, FALSE)

\* a scope check that compares companies and never ships
bulkRowViolatesCompanyOnly(caller, row) ==
  caller.role_id \in {2, 3} /\ caller.company_id # NULL /\ row.company_id # caller.company_id

\* the scope check of one fetched row: the ids pushed to violations
bulkRowViolates(caller, row) ==
  LET role == caller.role_id
      myCompany == caller.company_id
      myShip == caller.ship_id
  IN  \/ role = 2 /\ myCompany # NULL /\ row.company_id # myCompany
      \/ role = 3 /\ myCompany # NULL /\ row.company_id # myCompany
      \/ role = 3 /\ myShip # NoShip /\ row.ship_id # myShip

bulkViolations(caller, fetched) ==
  {u \in DOMAIN fetched : bulkRowViolates(caller, fetched[u])}

\* does the loop generate a bundle for the fetched row
bulkGenerates(body, fetchedRow) == isTargetOnboard(body) /\ ~hasCreds(fetchedRow)

\* an UPDATE whose CASE WHEN clearCreds is missing on the username column
bulkRowUpdateKeepsUsername(row, body, uname, plain) ==
  LET clearCreds == isTargetOffboard(body) /\ body.remove_credentials
      gen == uname # NoText
  IN  [row EXCEPT
         !.status = Trim(body.status),
         !.username = Coalesce(uname, @, NoText),
         !.password_hash =
            IF clearCreds THEN NoText
            ELSE Coalesce(IF gen THEN hashPassword(plain) ELSE NoText, @, NoText),
         !.password_enc =
            IF clearCreds THEN NoText
            ELSE Coalesce(IF gen THEN encryptPassword(plain) ELSE NoText, @, NoText)]

\* the UPDATE of one row: status, and the CASE WHEN clearCreds ... COALESCE columns
bulkRowUpdate(row, body, uname, plain) ==
  LET clearCreds == isTargetOffboard(body) /\ body.remove_credentials
      gen == uname # NoText
  IN  [row EXCEPT
         !.status = Trim(body.status),
         !.username = IF clearCreds THEN NoText ELSE Coalesce(uname, @, NoText),
         !.password_hash =
            IF clearCreds THEN NoText
            ELSE Coalesce(IF gen THEN hashPassword(plain) ELSE NoText, @, NoText),
         !.password_enc =
            IF clearCreds THEN NoText
            ELSE Coalesce(IF gen THEN encryptPassword(plain) ELSE NoText, @, NoText)]

\* the loop over the fetched rows, in the order the SELECT returned them (any order):
\* the tables it can end with and the credentials it generated, or a thrown error
RECURSIVE bulkLoop(_, _, _, _, _)
bulkLoop(tbl, todo, fetched, body, creds) ==
  IF todo = {}
    THEN {[ok |-> TRUE, users |-> tbl, credentials |-> creds]}
    ELSE UNION {
           LET gen == bulkGenerates(body, fetched[u])
               names == IF gen THEN createUniqueUsername(tbl, fetched[u].seafarer_id)
                        ELSE {NoText}
               plains == IF gen THEN env.passwords ELSE {NULL}
           IN  UNION {
                 LET row == bulkRowUpdate(tbl[u], body, n, p)
                 IN  IF n = Exhausted \/ UniqueViolation(tbl, u, row)
                       THEN {[ok |-> FALSE, users |-> tbl, credentials |-> creds]}
                       ELSE bulkLoop([tbl EXCEPT ![u] = row], todo \ {u}, fetched, body,
                                     IF gen THEN creds \cup {Credential(u, n, p)} ELSE creds)
                 : n \in names, p \in plains}
           : u \in todo}

bulkUpdateUserStatusResults(caller, body) ==
  LET fetched == [u \in body.user_ids \cap DOMAIN users |-> users[u]]
  IN  IF body.user_ids = {}
        THEN {Unchanged(Response(400, "user_ids must be a non-empty array"))}
      ELSE IF ~isTargetOnboard(body) /\ ~isTargetOffboard(body)
        THEN {Unchanged(Response(400, "status must be either Onboard or Offboard"))}
      ELSE IF DOMAIN fetched = {}
        THEN {Unchanged(Response(404, "No users found for given user_ids"))}
      ELSE IF bulkViolations(caller, fetched) # {}
        THEN {Unchanged(Response(403, "Scope violation"))}
      ELSE {IF r.ok
              THEN Outcome(r.users, nextUserId, sessions,
                           [Response(200, "") EXCEPT !.credentials = r.credentials,
                                                     !.rows = DOMAIN fetched])
              ELSE Unchanged(Response(500, "Failed to bulk update user status"))
            : r \in bulkLoop(users, DOMAIN fetched, fetched, body, {})}

-----------------------------------------------------------------------------
(* usersController: getAllUsers, getUserById *)

\* column = $n in a WHERE clause: never true of a NULL on either side
SqlEq(a, b, null) == a # null /\ b # null /\ a = b

\* a SubAdmin query that filters on the company alone
getAllUsersRowsByCompany(caller) ==
  IF caller.role_id = 1 THEN DOMAIN users
  ELSE IF caller.role_id \in {2, 3}
    THEN {u \in DOMAIN users : SqlEq(users[u].company_id, caller.company_id, NULL)}
  ELSE {u \in DOMAIN users : SqlEq(u, caller.user_id, 0)}

\* the rows the role's SELECT of getAllUsers returns
getAllUsersRows(caller) ==
  LET role == caller.role_id
  IN  IF role = 1 THEN DOMAIN users
      ELSE IF role = 2
        THEN {u \in DOMAIN users : SqlEq(users[u].company_id, caller.company_id, NULL)}
      ELSE IF role = 3
        THEN {u \in DOMAIN users :
                /\ SqlEq(users[u].company_id, caller.company_id, NULL)
                /\ SqlEq(users[u].ship_id, caller.ship_id, NoShip)}
      ELSE {u \in DOMAIN users : SqlEq(u, caller.user_id, 0)}

getAllUsersResult(caller) ==
  LET rows == getAllUsersRows(caller)
  IN  [Response(200, "") EXCEPT
         !.rows = rows,
         !.plain = UNION {attachPlainPasswordIfAllowed(caller.role_id, u, users[u]) : u \in rows}]

getUserByIdResult(caller, id) ==
  IF id \notin DOMAIN users
    THEN Response(404, "User not found")
    ELSE [Response(200, "") EXCEPT
            !.rows = {id},
            !.plain = attachPlainPasswordIfAllowed(caller.role_id, id, users[id])]

-----------------------------------------------------------------------------
(* authController *)

\* a login gate that treats every role as an admin role
isAdminRoleAny(roleId) == TRUE

isAdminRole(roleId) == roleId \in {ROLE_SUPERADMIN, ROLE_ADMIN, ROLE_SUBADMIN}
canAdmin(roleId) == roleId \in {ROLE_SUPERADMIN, ROLE_ADMIN, ROLE_SUBADMIN}

\* SELECT ... FROM users WHERE username = $1 LIMIT 1
UserByUsername(name) == {u \in DOMAIN users : users[u].username = name}

\* a refresh_sessions row: revoked is revoked_at IS NOT NULL, expired is expires_at in the
\* past; its position in the table stands for its refresh_token_hash
Session(uid) == [user_id |-> uid, revoked |-> FALSE, expired |-> FALSE]

\* UPDATE refresh_sessions SET revoked_at = NOW() WHERE user_id = $1 AND revoked_at IS NULL
RevokeSessionsOf(sess, uid) ==
  [i \in DOMAIN sess |-> IF sess[i].user_id = uid THEN [sess[i] EXCEPT !.revoked = TRUE]
                         ELSE sess[i]]

loginResults(username, password) ==
  IF UserByUsername(username) = {}
    THEN {Unchanged(Response(401, "Invalid credentials"))}
    ELSE {LET user == users[u]
          IN  IF ~isAdminRole(user.role_id) /\ ~isOnboard(user.status)
                THEN Unchanged(Response(403, "User is not onboard. Login disabled."))
              ELSE IF hashPassword(password) # user.password_hash
                THEN Unchanged(Response(401, "Invalid credentials"))
              ELSE Outcome(users, nextUserId, Append(sessions, Session(u)),
                           [Response(200, "Login successful") EXCEPT !.rows = {u}])
          : u \in UserByUsername(username)}

\* the /auth/change-password handler: it rewrites password_hash alone
changePasswordResults(username, old_password, new_password) ==
  IF UserByUsername(username) = {}
    THEN {Unchanged(Response(401, "Invalid credentials"))}
    ELSE {LET user == users[u]
          IN  IF ~isOnboard(user.status)
                THEN Unchanged(Response(403, "User is not onboard. Password change disabled."))
              ELSE IF hashPassword(old_password) # user.password_hash
                THEN Unchanged(Response(401, "Invalid credentials"))
              ELSE Outcome([users EXCEPT ![u].password_hash = hashPassword(new_password)],
                           nextUserId, sessions, Response(200, "Password updated successfully"))
          : u \in UserByUsername(username)}

\* company / ship scope of an admin action on another user
ensureUserScopeForAdmin(caller, targetUserId) ==
  LET role == caller.role_id
  IN  IF role = ROLE_SUPERADMIN THEN TRUE
      ELSE IF role = ROLE_ADMIN
        THEN /\ targetUserId \in DOMAIN users
             /\ users[targetUserId].company_id = caller.company_id
      ELSE IF role = ROLE_SUBADMIN
        THEN /\ targetUserId \in DOMAIN users
             /\ users[targetUserId].company_id = caller.company_id
             /\ users[targetUserId].ship_id = caller.ship_id
      ELSE FALSE

adminViewPasswordResult(caller, id) ==
  IF ~allowRoles({1, 2, 3}, caller) \/ ~canAdmin(caller.role_id)
    THEN Response(403, "Forbidden")
  ELSE IF ~ensureUserScopeForAdmin(caller, id)
    THEN Response(403, "Forbidden (scope)")
  ELSE IF id \notin DOMAIN users
    THEN Response(404, "User not found")
  ELSE IF decryptPasswordThrows(users[id].password_enc)
    THEN Response(500, "Failed to view password")
  ELSE [Response(200, "") EXCEPT
          !.rows = {id},
          !.plain = IF decryptPassword(users[id].password_enc) # NULL
                      THEN {<<id, decryptPassword(users[id].password_enc)>>}
                      ELSE {}]

adminSetPasswordResults(caller, id, new_password) ==
  IF ~allowRoles({1, 2, 3}, caller) \/ ~canAdmin(caller.role_id)
    THEN {Unchanged(Response(403, "Forbidden"))}
  ELSE IF ~ensureUserScopeForAdmin(caller, id)
    THEN {Unchanged(Response(403, "Forbidden (scope)"))}
  ELSE IF id \notin DOMAIN users
    THEN {Unchanged(Response(404, "User not found"))}
  ELSE {Outcome([users EXCEPT ![id].password_hash = hashPassword(new_password),
                              ![id].password_enc = encryptPassword(new_password)],
                nextUserId, RevokeSessionsOf(sessions, id), Response(200, "Password updated"))}

SignupBody(sid, uname, plain, company, ship, status, role) ==
  [seafarer_id |-> sid, username |-> uname, password |-> plain, company_id |-> company,
   ship_id |-> ship, status |-> status, role_id |-> role]

\* status = 'onboard' and role_id = ROLE_CREW are the defaults of an absent field
signupResults(body) ==
  LET finalRoleId == IF body.role_id = 0 THEN ROLE_CREW ELSE body.role_id
      status == IF body.status = NullStatus THEN StatusText("onboard", FALSE, FALSE)
                ELSE body.status
      finalStatus == IF isAdminRole(finalRoleId) THEN Onboard ELSE status
      row == Row(body.seafarer_id, finalRoleId, body.company_id, body.ship_id, finalStatus,
                 body.username, hashPassword(body.password), encryptPassword(body.password))
      id == nextUserId
  IN  IF UniqueViolation(users, id, row)
        THEN {Outcome(users, nextUserId + 1, sessions,
                      Response(409, "Duplicate username or seafarer_id"))}
        ELSE {Outcome(users @@ (id :> row), nextUserId + 1, sessions,
                      [Response(201, "Signup successful") EXCEPT !.rows = {id}])}

-----------------------------------------------------------------------------
(* Requests.  An access token is a signed snapshot of (user_id, role_id,      *)
(* company_id, ship_id) that requireAuth verifies by signature alone, so the *)
(* tokens in circulation are inputs, like the payload values.                *)

Anonymous == Principal(0, 0, NULL, NoShip)
SuperAdmin == Principal(2, ROLE_SUPERADMIN, NULL, NoShip)
AdminA == Principal(2, ROLE_ADMIN, "A", NoShip)
SubAdminA1 == Principal(2, ROLE_SUBADMIN, "A", 1)
CrewA1 == Principal(1, ROLE_CREW, "A", 1)

Env(callers, tenancies, moves, roles, createStatuses, updateStatuses, passwords, suffixes) ==
  [callers |-> callers, seafarers |-> {"s1", "s2"}, renames |-> {NULL},
   trees |-> {NoQuestions},
   tenancies |-> tenancies, moves |-> moves,
   roles |-> roles, createStatuses |-> createStatuses, updateStatuses |-> updateStatuses,
   passwords |-> passwords, suffixes |-> suffixes]

\* the credential lifecycle: one tenant, two passwords
LifecycleEnv ==
  Env({SuperAdmin}, {<<"A", 1>>}, {<<NULL, NoShip>>}, {0},
      {Onboard, Offboard}, {NullStatus, OnboardLoose, Offboard},
      {"p1", "p2"}, {1, 2})

\* signing in: crew and admin accounts, a right and a wrong password
LoginEnv ==
  Env({SuperAdmin}, {<<"A", 1>>}, {<<NULL, NoShip>>}, {0, ROLE_ADMIN},
      {Onboard, Offboard}, {Onboard, Offboard},
      {"p1", "p2"}, {1})

\* scoping: four roles of callers, accounts on two ships and in two companies
ScopeEnv ==
  Env({SuperAdmin, AdminA, SubAdminA1, CrewA1}, {<<"A", 1>>, <<"A", 2>>, <<"B", 1>>},
      {<<NULL, NoShip>>, <<"B", NoShip>>, <<NULL, 2>>}, {0},
      {Onboard}, {NullStatus, Offboard},
      {"p1"}, {1})

Usernames == UNION {generateUsername(sid) : sid \in env.seafarers}

\* the last request (handler, token, targeted user ids, payload) and its response
Last(op, caller, target, req, resp) ==
  [op |-> op, caller |-> caller, target |-> target, req |-> req, resp |-> resp]

\* a handler ran to its response: its writes are in the tables
Apply(op, caller, target, req, o) ==
  /\ o.nextUserId <= MaxUsers + 1
  /\ Len(o.sessions) <= MaxSessions
  /\ users' = o.users
  /\ nextUserId' = o.nextUserId
  /\ sessions' = o.sessions
  /\ last' = Last(op, caller, target, req, o.resp)
  /\ UNCHANGED <<env, pc, loc, txn, resources>>

\* a read handler ran to its response
Answer(op, caller, target, resp) ==
  /\ last' = Last(op, caller, target, <<>>, resp)
  /\ UNCHANGED <<users, nextUserId, sessions, env, pc, loc, txn, resources>>

createUser ==
  \E caller \in env.callers, sid \in env.seafarers, st \in env.createStatuses,
     t \in env.tenancies, r \in env.roles :
    LET body == CreateBody(sid, st, t[1], t[2], r)
    IN  \E o \in createUserResults(caller, body) :
          Apply("createUser", caller, o.resp.rows, body, o)

updateUser ==
  \E caller \in env.callers, id \in UserIds, sid \in env.renames,
     st \in env.updateStatuses, m \in env.moves :
    LET body == UpdateBody(sid, st, m[1], m[2])
    IN  \E o \in updateUserResults(caller, id, body) :
          Apply("updateUser", caller, {id}, body, o)

deleteUser ==
  \E caller \in env.callers, id \in UserIds :
    \E o \in deleteUserResults(caller, id) :
      Apply("deleteUser", caller, {id}, <<>>, o)

BulkBodies ==
  {BulkBody(ids, st, rm) : ids \in SUBSET UserIds \ {{}},
                           st \in env.updateStatuses \ {NullStatus}, rm \in BOOLEAN}

bulkUpdateUserStatus ==
  \E caller \in env.callers, body \in BulkBodies :
    \E o \in bulkUpdateUserStatusResults(caller, body) :
      Apply("bulkUpdateUserStatus", caller, body.user_ids, body, o)

login ==
  \E name \in Usernames, plain \in env.passwords :
    \E o \in loginResults(name, plain) :
      Apply("login", Anonymous, o.resp.rows, [username |-> name, password |-> plain], o)

changePassword ==
  \E name \in Usernames, old \in env.passwords, new \in env.passwords :
    \E o \in changePasswordResults(name, old, new) :
      Apply("changePassword", Anonymous, UserByUsername(name),
            [username |-> name, old_password |-> old, new_password |-> new], o)

adminSetPassword ==
  \E caller \in env.callers, id \in UserIds, new \in env.passwords :
    \E o \in adminSetPasswordResults(caller, id, new) :
      Apply("adminSetPassword", caller, {id}, [new_password |-> new], o)

signup ==
  \E sid \in env.seafarers, plain \in env.passwords, t \in env.tenancies, r \in env.roles :
    \E name \in generateUsername(sid) :
      LET body == SignupBody(sid, name, plain, t[1], t[2], NullStatus, r)
      IN  \E o \in signupResults(body) :
            Apply("signup", Anonymous, o.resp.rows, body, o)

getAllUsers ==
  \E caller \in env.callers :
    Answer("getAllUsers", caller, {}, getAllUsersResult(caller))

getUserById ==
  \E caller \in env.callers, id \in UserIds :
    Answer("getUserById", caller, {id}, getUserByIdResult(caller, id))

adminViewPassword ==
  \E caller \in env.callers, id \in UserIds :
    Answer("adminViewPassword", caller, {id}, adminViewPasswordResult(caller, id))

-----------------------------------------------------------------------------
(* Specifications *)

\* the pooled connections and the requests in flight
Clients == {1, 2}
Procs == {1, 2}

\* a pooled connection outside a transaction: no row locks, no uncommitted writes to
\* the users table or to the company table
NoTxn ==
  [active |-> FALSE, locks |-> {}, writes |-> <<>>, companies |-> <<>>, assessments |-> <<>>]

\* the five resource tables empty, their id generators at 1; reset_tokens numbers the
\* values generateResetToken has produced
NoResources ==
  /\ ships = <<>>
  /\ certificates = <<>>
  /\ assessments = <<>>
  /\ incidents = <<>>
  /\ companies = <<>>
  /\ serials = [ships |-> 1, certificates |-> 1, assessments |-> 1, incidents |-> 1,
                companies |-> 1, reset_tokens |-> 1]

InitTables ==
  /\ users = <<>>
  /\ nextUserId = 1
  /\ sessions = <<>>
  /\ last = Last("start", Anonymous, {}, <<>>, Response(0, ""))
  /\ pc = [p \in Procs |-> "idle"]
  /\ loc = [p \in Procs |-> <<>>]
  /\ txn = [c \in Clients |-> NoTxn]
  /\ NoResources

\* the credential lifecycle, one request at a time
Init == InitTables /\ env = LifecycleEnv

Next ==
  \/ createUser
  \/ updateUser
  \/ deleteUser
  \/ bulkUpdateUserStatus
  \/ changePassword
  \/ adminSetPassword

Spec == Init /\ [][Next]_vars

\* signing in over the lifecycle of an account
InitLogin == InitTables /\ env = LoginEnv

NextLogin ==
  \/ createUser
  \/ updateUser
  \/ bulkUpdateUserStatus
  \/ adminSetPassword
  \/ signup
  \/ login

SpecLogin == InitLogin /\ [][NextLogin]_vars

\* scoping of the user handlers, one request at a time
InitScope == InitTables /\ env = ScopeEnv

NextScope ==
  \/ createUser
  \/ updateUser
  \/ deleteUser
  \/ bulkUpdateUserStatus
  \/ getAllUsers
  \/ getUserById
  \/ adminViewPassword

SpecScope == InitScope /\ [][NextScope]_vars

-----------------------------------------------------------------------------
(* bulkUpdateUserStatus, statement by statement.  db is a pg Pool: db.query  *)
(* runs each statement on whichever pooled connection it is handed, so the   *)
(* BEGIN, the SELECT ... FOR UPDATE, the UPDATEs and the COMMIT of one        *)
(* request each run on some connection of the pool.                          *)

\* the users table as a statement on connection c sees it: the committed rows
\* under the connection's own uncommitted writes
View(c) == txn[c].writes @@ users

\* no other connection holds a row lock on any of the rows
LocksFree(c, rows) == \A d \in Clients \ {c} : txn[d].locks \cap rows = {}

\* the next row of the for loop, in user_id order
NextRow(todo) == CHOOSE u \in todo : \A v \in todo : u <= v

\* where the loop continues: a username query, the UPDATE, or the COMMIT
LoopPc(todo, fetched, body) ==
  IF todo = {} THEN "commit"
  ELSE IF bulkGenerates(body, fetched[NextRow(todo)]) THEN "username"
  ELSE "update"

ConcBodies == {BulkBody(ids, st, FALSE) : ids \in {{1}, {1, 2}}, st \in env.updateStatuses}

\* the request arrives and passes the validation of its body
bulkStart(p) ==
  /\ pc[p] = "idle"
  /\ \E caller \in env.callers, body \in ConcBodies :
        loc' = [loc EXCEPT ![p] =
                  [caller |-> caller, body |-> body, fetched |-> <<>>, todo |-> {},
                   tries |-> 0, uname |-> NoText, credentials |-> {},
                   resp |-> Response(0, "")]]
  /\ pc' = [pc EXCEPT ![p] = "begin"]
  /\ UNCHANGED <<users, nextUserId, sessions, env, last, txn, resources>>

\* await db.query("BEGIN")
bulkBegin(p, c) ==
  /\ pc[p] = "begin"
  /\ txn' = [txn EXCEPT ![c].active = TRUE]
  /\ pc' = [pc EXCEPT ![p] = "select"]
  /\ UNCHANGED <<users, nextUserId, sessions, env, last, loc, resources>>

\* SELECT ... WHERE user_id = ANY($1) FOR UPDATE, then the 404 and scope checks
bulkSelectForUpdate(p, c) ==
  LET ids == loc[p].body.user_ids \cap DOMAIN users
      fetched == [u \in ids |-> View(c)[u]]
  IN  /\ pc[p] = "select"
      /\ LocksFree(c, ids)
      /\ txn' = IF txn[c].active THEN [txn EXCEPT ![c].locks = @ \cup ids] ELSE txn
      /\ IF ids = {}
           THEN /\ loc' = [loc EXCEPT ![p].resp =
                             Response(404, "No users found for given user_ids")]
                /\ pc' = [pc EXCEPT ![p] = "rollback"]
         ELSE IF bulkViolations(loc[p].caller, fetched) # {}
           THEN /\ loc' = [loc EXCEPT ![p].resp = Response(403, "Scope violation")]
                /\ pc' = [pc EXCEPT ![p] = "rollback"]
         ELSE /\ loc' = [loc EXCEPT ![p].fetched = fetched, ![p].todo = ids]
              /\ pc' = [pc EXCEPT ![p] = LoopPc(ids, fetched, loc[p].body)]
      /\ UNCHANGED <<users, nextUserId, sessions, env, last, resources>>

\* one pass of createUniqueUsername: a candidate and its SELECT 1 ... WHERE username
bulkCreateUniqueUsername(p, c) ==
  /\ pc[p] = "username"
  /\ \E candidate \in generateUsername(loc[p].fetched[NextRow(loc[p].todo)].seafarer_id) :
        IF ~UsernameTaken(View(c), candidate)
          THEN /\ loc' = [loc EXCEPT ![p].uname = candidate, ![p].tries = 0]
               /\ pc' = [pc EXCEPT ![p] = "update"]
        ELSE IF loc[p].tries + 1 < MAX_USERNAME_TRIES
          THEN /\ loc' = [loc EXCEPT ![p].tries = @ + 1]
               /\ UNCHANGED pc
        ELSE /\ loc' = [loc EXCEPT ![p].resp =
                          Response(500, "Failed to bulk update user status")]
             /\ pc' = [pc EXCEPT ![p] = "rollback"]
  /\ UNCHANGED <<users, nextUserId, sessions, env, last, txn, resources>>

\* UPDATE users SET status, username, password_hash, password_enc WHERE user_id
bulkUpdate(p, c) ==
  LET u == NextRow(loc[p].todo)
      gen == loc[p].uname # NoText
  IN  /\ pc[p] = "update"
      /\ LocksFree(c, {u})
      /\ \E plain \in (IF gen THEN env.passwords ELSE {NULL}) :
            LET row == bulkRowUpdate(View(c)[u], loc[p].body, loc[p].uname, plain)
                todo == loc[p].todo \ {u}
            IN  IF UniqueViolation(View(c), u, row)
                  THEN /\ loc' = [loc EXCEPT ![p].resp =
                                    Response(500, "Failed to bulk update user status")]
                       /\ pc' = [pc EXCEPT ![p] = "rollback"]
                       /\ UNCHANGED <<users, txn>>
                  ELSE /\ IF txn[c].active
                            THEN /\ txn' = [txn EXCEPT ![c].locks = @ \cup {u},
                                                       ![c].writes = (u :> row) @@ @]
                                 /\ UNCHANGED users
                            ELSE /\ users' = [users EXCEPT ![u] = row]
                                 /\ UNCHANGED txn
                       /\ loc' = [loc EXCEPT
                                    ![p].todo = todo,
                                    ![p].uname = NoText,
                                    ![p].credentials =
                                       IF gen THEN @ \cup {Credential(u, loc[p].uname, plain)}
                                       ELSE @]
                       /\ pc' = [pc EXCEPT ![p] = LoopPc(todo, loc[p].fetched, loc[p].body)]
      /\ UNCHANGED <<nextUserId, sessions, env, last, resources>>

\* await db.query("COMMIT") and the 200 response
bulkCommit(p, c) ==
  /\ pc[p] = "commit"
  /\ users' = View(c)
  /\ txn' = [txn EXCEPT ![c] = NoTxn]
  /\ loc' = [loc EXCEPT ![p].resp =
               [Response(200, "Bulk status update completed") EXCEPT
                  !.credentials = loc[p].credentials,
                  !.rows = DOMAIN loc[p].fetched]]
  /\ pc' = [pc EXCEPT ![p] = "done"]
  /\ UNCHANGED <<nextUserId, sessions, env, last, resources>>

\* await db.query("ROLLBACK") and the 404, 403 or 500 response
bulkRollback(p, c) ==
  /\ pc[p] = "rollback"
  /\ txn' = [txn EXCEPT ![c] = NoTxn]
  /\ pc' = [pc EXCEPT ![p] = "done"]
  /\ UNCHANGED <<users, nextUserId, sessions, env, last, loc, resources>>

\* two credless accounts, and bulk requests to Onboard that overlap on the first
ConcEnv ==
  Env({SuperAdmin}, {<<"A", 1>>}, {<<NULL, NoShip>>}, {0},
      {Offboard}, {Onboard}, {"p1"}, {1, 2})

InitConc ==
  /\ users = [u \in UserIds |->
               Row(IF u = 1 THEN "s1" ELSE "s2", ROLE_CREW, "A", 1, Offboard,
                   NoText, NoText, NoText)]
  /\ nextUserId = MaxUsers + 1
  /\ sessions = <<>>
  /\ last = Last("start", Anonymous, {}, <<>>, Response(0, ""))
  /\ pc = [p \in Procs |-> "idle"]
  /\ loc = [p \in Procs |-> <<>>]
  /\ txn = [c \in Clients |-> NoTxn]
  /\ NoResources
  /\ env = ConcEnv

NextConc ==
  \E p \in Procs :
    \/ bulkStart(p)
    \/ \E c \in Clients :
         \/ bulkBegin(p, c)
         \/ bulkSelectForUpdate(p, c)
         \/ bulkCreateUniqueUsername(p, c)
         \/ bulkUpdate(p, c)
         \/ bulkCommit(p, c)
         \/ bulkRollback(p, c)

SpecConc == InitConc /\ [][NextConc]_vars

-----------------------------------------------------------------------------
(* The credential bundle of an account *)

NoBundle(row) ==
  row.username = NoText /\ row.password_hash = NoText /\ row.password_enc = NoText

FullBundle(row) ==
  row.username # NoText /\ row.password_hash # NoText /\ row.password_enc # NoText

SameBundle(a, b) ==
  /\ a.username = b.username
  /\ a.password_hash = b.password_hash
  /\ a.password_enc = b.password_enc

\* the step was a successful updateUser or bulkUpdateUserStatus on account id
StatusStepOn(id) ==
  /\ last'.op \in {"updateUser", "bulkUpdateUserStatus"}
  /\ last'.resp.code = 200
  /\ id \in last'.target
  /\ id \in DOMAIN users
  /\ id \in DOMAIN users'

\* C1: a status update to Onboard (any spelling that trims and lowercases to
\* onboard) of an account without a bundle returns {username, password} and stores
\* that username, the hash of that password and its encryption; on an account
\* that has a bundle it returns no credentials for it and leaves the bundle as it was.
C1_Step ==
  \A id \in UserIds :
    (StatusStepOn(id) /\ isOnboard(last'.req.status)) =>
       /\ NoBundle(users[id]) =>
            \E c \in last'.resp.credentials :
               /\ c.user_id = id
               /\ users'[id].username = c.username /\ c.username # NoText
               /\ users'[id].password_hash = hashPassword(c.password)
               /\ users'[id].password_enc = encryptPassword(c.password)
       /\ FullBundle(users[id]) =>
            /\ \A c \in last'.resp.credentials : c.user_id # id
            /\ SameBundle(users'[id], users[id])

\* C1: and a bundle stays in place until a bulk update removes it or the account
\* is deleted, so every later update to Onboard finds it.
C1_Keeps ==
  \A id \in UserIds :
    (/\ id \in DOMAIN users /\ FullBundle(users[id])
     /\ id \in DOMAIN users'
     /\ ~(last'.op = "bulkUpdateUserStatus" /\ id \in last'.target
          /\ last'.req.remove_credentials)) => FullBundle(users'[id])

C2_AllOrNone ==
  \A id \in DOMAIN users : NoBundle(users[id]) \/ FullBundle(users[id])

\* C3: in every reachable state the password_enc of an account, when it is not
\* null, encrypts the plaintext whose hash is the account's password_hash.
C3_SamePlaintext ==
  \A id \in DOMAIN users :
    users[id].password_enc # NoText =>
      users[id].password_hash = hashPassword(decryptPassword(users[id].password_enc))

\* the step was an updateUser, or a bulkUpdateUserStatus without remove_credentials,
\* to Offboard on the onboard Crew account id that has a bundle
OffboardStepOn(id) ==
  /\ StatusStepOn(id)
  /\ \/ last'.op = "updateUser"
     \/ last'.op = "bulkUpdateUserStatus" /\ ~last'.req.remove_credentials
  /\ normalizeStatus(last'.req.status) = StatusText("offboard", FALSE, FALSE)
  /\ users[id].role_id = ROLE_CREW
  /\ isOnboard(users[id].status)
  /\ FullBundle(users[id])

\* a Crew account that is not onboard and whose username and password the login
\* request carries
OffboardedCrewLogin(req) ==
  {u \in DOMAIN users :
     /\ users[u].role_id = ROLE_CREW
     /\ ~isOnboard(users[u].status)
     /\ FullBundle(users[u])
     /\ users[u].username = req.username
     /\ users[u].password_hash = hashPassword(req.password)}

\* C4: updateUser, or bulkUpdateUserStatus without remove_credentials, to Offboard
\* on an onboard Crew account with a bundle leaves username, password_hash and
\* password_enc as they were, and a login with that account's username and
\* password is then answered 403 "User is not onboard", never 401 and never 200.
C4_Step ==
  /\ \A id \in UserIds :
        OffboardStepOn(id) =>
          SameBundle(users'[id], users[id]) /\ ~isOnboard(users'[id].status)
  /\ (last'.op = "login" /\ OffboardedCrewLogin(last'.req) # {}) =>
        /\ last'.resp.code = 403
        /\ last'.resp.error = "User is not onboard. Login disabled."
        /\ sessions' = sessions

-----------------------------------------------------------------------------
(* Scope: the role table of the specification, section 4.2 *)

\* account id lies within the caller's scope
InScope(caller, id) ==
  \/ caller.role_id = ROLE_SUPERADMIN
  \/ caller.role_id = ROLE_ADMIN /\ users[id].company_id = caller.company_id
  \/ /\ caller.role_id = ROLE_SUBADMIN
     /\ users[id].company_id = caller.company_id
     /\ users[id].ship_id = caller.ship_id
  \/ caller.role_id = ROLE_CREW /\ id = caller.user_id

\* the payload assigns the account to a company or ship that is not the caller's
CrossesBoundary(caller, req) ==
  \/ /\ caller.role_id \in {ROLE_ADMIN, ROLE_SUBADMIN}
     /\ req.company_id # NULL /\ req.company_id # caller.company_id
  \/ /\ caller.role_id = ROLE_SUBADMIN
     /\ req.ship_id # NoShip /\ req.ship_id # caller.ship_id

\* C5: a bulkUpdateUserStatus by an Admin or SubAdmin whose user_ids include an
\* existing account outside the caller's scope is answered 403 and leaves every
\* account, the in-scope ones of the request included, as it was.
C5_Step ==
  (/\ last'.op = "bulkUpdateUserStatus"
   /\ last'.caller.role_id \in {ROLE_ADMIN, ROLE_SUBADMIN}
   /\ \E id \in last'.target \cap DOMAIN users : ~InScope(last'.caller, id))
  => (last'.resp.code = 403 /\ users' = users)

C5_BulkAllOrNothing == [][C5_Step]_vars

\* a bulk request mixing in-scope and out-of-scope accounts was refused
C5_Witness ==
  /\ last.op = "bulkUpdateUserStatus"
  /\ last.caller.role_id \in {ROLE_ADMIN, ROLE_SUBADMIN}
  /\ last.resp.code = 403
  /\ \E a, b \in last.target \cap DOMAIN users :
        InScope(last.caller, a) /\ ~InScope(last.caller, b)

\* C7: updateUser and deleteUser by an Admin or SubAdmin on an account outside the
\* caller's scope, and an updateUser that assigns a company or ship other than
\* the caller's, are answered 403 and leave the users table as it was.
C7_Step ==
  \A id \in UserIds :
    (/\ last'.op \in {"updateUser", "deleteUser"}
     /\ last'.caller.role_id \in {ROLE_ADMIN, ROLE_SUBADMIN}
     /\ last'.target = {id}
     /\ id \in DOMAIN users
     /\ \/ ~InScope(last'.caller, id)
        \/ last'.op = "updateUser" /\ CrossesBoundary(last'.caller, last'.req))
    => (last'.resp.code = 403 /\ users' = users)

C7_ScopedWrites == [][C7_Step]_vars

\* C8: getUserById returns an account only if the caller's getAllUsers would
\* list it.
C8_Step ==
  (last'.op = "getUserById" /\ last'.resp.code = 200)
  => \A id \in last'.resp.rows : id \in DOMAIN users /\ InScope(last'.caller, id)

C8_ScopedGetById == [][C8_Step]_vars

\* C9: getAllUsers returns every account to a SuperAdmin, the accounts of the
\* caller's company to an Admin, those of the caller's company and ship to a
\* SubAdmin, and the caller's own account to a Crew caller.
C9_Step ==
  last'.op = "getAllUsers" =>
    /\ last'.resp.code = 200
    /\ last'.resp.rows = {id \in DOMAIN users : InScope(last'.caller, id)}

C9_ListByRole == [][C9_Step]_vars

\* a SubAdmin was listed some accounts of the company and not those of another ship
C9_Witness ==
  /\ last.op = "getAllUsers"
  /\ last.caller.role_id = ROLE_SUBADMIN
  /\ last.resp.rows # {}
  /\ \E id \in DOMAIN users \ last.resp.rows :
        users[id].company_id = last.caller.company_id

\* C10: a read (getAllUsers, getUserById, adminViewPassword) discloses the
\* decrypted password of an account only to a SuperAdmin, to an Admin of the
\* account's company or to a SubAdmin of its company and ship, never to Crew.
C10_Step ==
  last'.op \in {"getAllUsers", "getUserById", "adminViewPassword"} =>
    \A d \in last'.resp.plain :
       /\ d[1] \in DOMAIN users
       /\ last'.caller.role_id # ROLE_CREW
       /\ InScope(last'.caller, d[1])

C10_PlaintextByRecoveryOnly == [][C10_Step]_vars

-----------------------------------------------------------------------------
(* Concurrent bulk updates *)

\* the accounts request p answered 200 with generated credentials for
GeneratedBy(p) ==
  IF pc[p] = "done" /\ loc[p].resp.code = 200
    THEN {cr.user_id : cr \in loc[p].resp.credentials}
    ELSE {}

\* C6: two concurrent bulkUpdateUserStatus requests to Onboard that share a
\* credless account serialize on it: at most one of them generates credentials
\* for that account, the other finds them present.
C6_GenerateOnceConcurrently ==
  \A p, q \in Procs : p # q => GeneratedBy(p) \cap GeneratedBy(q) = {}

-----------------------------------------------------------------------------
(* shipsController: createShip, updateShip, deleteShip *)

MaxShips == 2
MaxResourceRows == 2

\* the rows the resource tables have been given so far
Created(s) == s.ships + s.certificates + s.assessments + s.incidents + s.companies - 5

\* the company ids in circulation
Companies == {t[1] : t \in env.tenancies}

\* what a handler of a resource table leaves behind: the table, its id generator,
\* the response
Effect(tbl, serial, resp) == [tbl |-> tbl, serial |-> serial, resp |-> resp]

Ship(company, name) == [company_id |-> company, ship_name |-> name]

ShipBody(company, name) == [company_id |-> company, ship_name |-> name]

canWriteShips(roleId) == roleId = ROLE_SUPERADMIN \/ roleId = ROLE_ADMIN

\* an Admin whose company is not the given one
shipOutsideCompanyNever(caller, companyId) == FALSE

\* role_id === ROLE_ADMIN && String(companyId) !== String(company_id)
shipOutsideCompany(caller, companyId) ==
  caller.role_id = ROLE_ADMIN /\ companyId # caller.company_id

\* a ships handler ran to its response
ApplyShips(op, caller, target, req, e) ==
  /\ e.serial <= MaxShips + 1
  /\ Created([serials EXCEPT !.ships = e.serial]) <= MaxResourceRows
  /\ ships' = e.tbl
  /\ serials' = [serials EXCEPT !.ships = e.serial]
  /\ last' = Last(op, caller, target, req, e.resp)
  /\ UNCHANGED <<users, nextUserId, sessions, env, pc, loc, txn,
                 certificates, assessments, incidents, companies>>

createShip ==
  \E caller \in env.callers, c \in Companies \cup {NULL} :
    LET body == ShipBody(c, "n1")
        e ==
          IF ~canWriteShips(caller.role_id)
            THEN Effect(ships, serials.ships, Response(403, "Forbidden"))
          ELSE IF body.company_id = NULL \/ body.ship_name = NULL
            THEN Effect(ships, serials.ships, Response(400, "company_id and ship_name are required"))
          ELSE IF shipOutsideCompany(caller, body.company_id)
            THEN Effect(ships, serials.ships, Response(403, "Forbidden (company scope)"))
          ELSE Effect(ships @@ (serials.ships :> Ship(body.company_id, body.ship_name)),
                      serials.ships + 1,
                      [Response(201, "") EXCEPT !.rows = {serials.ships}])
    IN  ApplyShips("createShip", caller, e.resp.rows, body, e)

updateShip ==
  \E caller \in env.callers, id \in 1..MaxShips, c \in Companies \cup {NULL},
     n \in {NULL, "n2"} :
    LET body == ShipBody(c, n)
        e ==
          IF ~canWriteShips(caller.role_id)
            THEN Effect(ships, serials.ships, Response(403, "Forbidden"))
          ELSE IF id \notin DOMAIN ships
            THEN Effect(ships, serials.ships, Response(404, "Ship not found"))
          ELSE IF shipOutsideCompany(caller, ships[id].company_id)
            THEN Effect(ships, serials.ships, Response(403, "Forbidden (company scope)"))
          ELSE IF body.company_id # NULL /\ shipOutsideCompany(caller, body.company_id)
            THEN Effect(ships, serials.ships, Response(403, "Forbidden (cannot change company_id)"))
          ELSE Effect([ships EXCEPT ![id] = Ship(Coalesce(body.company_id, @.company_id, NULL),
                                                 Coalesce(body.ship_name, @.ship_name, NULL))],
                      serials.ships, Response(200, "Ship updated"))
    IN  ApplyShips("updateShip", caller, {id}, body, e)

deleteShip ==
  \E caller \in env.callers, id \in 1..MaxShips :
    LET e ==
          IF ~canWriteShips(caller.role_id)
            THEN Effect(ships, serials.ships, Response(403, "Forbidden"))
          ELSE IF id \notin DOMAIN ships
            THEN Effect(ships, serials.ships, Response(404, "Ship not found"))
          ELSE IF shipOutsideCompany(caller, ships[id].company_id)
            THEN Effect(ships, serials.ships, Response(403, "Forbidden (company scope)"))
          ELSE Effect([s \in DOMAIN ships \ {id} |-> ships[s]], serials.ships,
                      Response(200, "Ship deleted"))
    IN  ApplyShips("deleteShip", caller, {id}, <<>>, e)

\* ships of two companies, written by callers of three roles
ShipsEnv ==
  Env({SuperAdmin, AdminA, SubAdminA1}, {<<"A", 1>>, <<"B", 1>>}, {<<NULL, NoShip>>}, {0},
      {Onboard}, {NullStatus}, {"p1"}, {1})

InitShips == InitTables /\ env = ShipsEnv

NextShips ==
  \/ createShip
  \/ updateShip
  \/ deleteShip

SpecShips == InitShips /\ [][NextShips]_vars

\* the request an Admin makes across its company boundary on ships: creating a ship for
\* another company, updating or deleting a ship of another company, or moving a ship to
\* another company
AdminCrossesOnShips(l, tbl) ==
  /\ l.caller.role_id = ROLE_ADMIN
  /\ \/ /\ l.op = "createShip"
        /\ l.req.company_id # NULL /\ l.req.ship_name # NULL
        /\ l.req.company_id # l.caller.company_id
     \/ /\ l.op \in {"updateShip", "deleteShip"}
        /\ \E id \in l.target : id \in DOMAIN tbl /\ tbl[id].company_id # l.caller.company_id
     \/ /\ l.op = "updateShip"
        /\ \E id \in l.target : id \in DOMAIN tbl
        /\ l.req.company_id # NULL /\ l.req.company_id # l.caller.company_id

C11_Step ==
  AdminCrossesOnShips(last', ships) => last'.resp.code = 403 /\ ships' = ships

\* C11: an Admin who creates a ship for another company, updates or deletes a ship of
\* another company, or sets a ship's company_id to another company, is answered 403 and
\* the ship table is unchanged.
C11_AdminShipsOwnCompany == [][C11_Step]_vars

\* Admin A was refused the deletion of a ship of company B, which is still there
C11_Witness ==
  /\ last.op = "deleteShip"
  /\ last.caller = AdminA
  /\ \E id \in last.target : id \in DOMAIN ships /\ ships[id].company_id = "B"
  /\ last.resp.code = 403

-----------------------------------------------------------------------------
(* certificatesController: createCertificate, updateCertificate,             *)
(* deleteCertificate                                                         *)

MaxCertificates == 1
MaxAssessments == 2
MaxIncidents == 1
MaxCompanies == 2

MaxRows ==
  [ships |-> MaxShips, certificates |-> MaxCertificates, assessments |-> MaxAssessments,
   incidents |-> MaxIncidents, companies |-> MaxCompanies]

\* the resource tables with one of them replaced
WithTable(name, tbl) ==
  [ships |-> IF name = "ships" THEN tbl ELSE ships,
   certificates |-> IF name = "certificates" THEN tbl ELSE certificates,
   assessments |-> IF name = "assessments" THEN tbl ELSE assessments,
   incidents |-> IF name = "incidents" THEN tbl ELSE incidents,
   companies |-> IF name = "companies" THEN tbl ELSE companies]

\* a handler of the named resource table ran to its response
Write(name, op, caller, target, req, e) ==
  /\ e.serial <= MaxRows[name] + 1
  /\ Created([serials EXCEPT ![name] = e.serial]) <= MaxResourceRows
  /\ ships' = WithTable(name, e.tbl).ships
  /\ certificates' = WithTable(name, e.tbl).certificates
  /\ assessments' = WithTable(name, e.tbl).assessments
  /\ incidents' = WithTable(name, e.tbl).incidents
  /\ companies' = WithTable(name, e.tbl).companies
  /\ serials' = [serials EXCEPT ![name] = e.serial]
  /\ last' = Last(op, caller, target, req, e.resp)
  /\ UNCHANGED <<users, nextUserId, sessions, env, pc, loc, txn>>

\* a handler refused or failed: the table and its id generator are as they were
Refuse(tbl, serial, code, error) == Effect(tbl, serial, Response(code, error))

\* row without the key
Without(tbl, id) == [k \in DOMAIN tbl \ {id} |-> tbl[k]]

NoUser == 0

CERT_STATUS == {"valid", "expired", "expiring_soon"}

Certificate(user, company, ship, status) ==
  [user_id |-> user, company_id |-> company, ship_id |-> ship, status |-> status]

canWrite(roleId) == roleId \in {ROLE_SUPERADMIN, ROLE_ADMIN, ROLE_SUBADMIN}

\* certScope(req): the rows of the caller's scope
certScope(caller, row) ==
  CASE caller.role_id = ROLE_SUPERADMIN -> TRUE
    [] caller.role_id = ROLE_ADMIN -> row.company_id = caller.company_id
    [] caller.role_id = ROLE_SUBADMIN ->
         row.company_id = caller.company_id /\ row.ship_id = caller.ship_id
    [] OTHER -> row.user_id = caller.user_id

\* WHERE certificate_id = $1 AND (<certScope where>) bound with [id, ...params]: the
\* scope's own placeholders start at $1 again, so with a non-empty params the statement
\* has fewer placeholders than bound values and the driver rejects it
certScopedStatementFails(caller) == caller.role_id # ROLE_SUPERADMIN

\* the request bodies of the certificate handlers
CertificateBodies ==
  {Certificate(u, t[1], t[2], st) :
     u \in {NoUser, 1}, t \in env.tenancies \cup env.moves, st \in {"valid", "lapsed"}}

createCertificate ==
  \E caller \in env.callers, body \in CertificateBodies :
    LET e ==
          LET same == Refuse(certificates, serials.certificates, 403, "Forbidden") IN
          IF ~allowRoles({1, 2, 3}, caller) \/ ~canWrite(caller.role_id)
            THEN same
          ELSE IF body.user_id = NoUser \/ body.company_id = NULL
            THEN Refuse(certificates, serials.certificates, 400, "user_id and company_id are required")
          ELSE IF caller.role_id = ROLE_ADMIN /\ body.company_id # caller.company_id
            THEN Refuse(certificates, serials.certificates, 403, "Forbidden (company scope)")
          ELSE IF /\ caller.role_id = ROLE_SUBADMIN
                  /\ (body.company_id # caller.company_id \/ body.ship_id # caller.ship_id)
            THEN Refuse(certificates, serials.certificates, 403, "Forbidden (ship scope)")
          ELSE IF body.status # NULL /\ body.status \notin CERT_STATUS
            THEN Refuse(certificates, serials.certificates, 400, "Invalid status")
          ELSE Effect(certificates @@ (serials.certificates :> body), serials.certificates + 1,
                      [Response(201, "") EXCEPT !.rows = {serials.certificates}])
    IN  Write("certificates", "createCertificate", caller, e.resp.rows, body, e)

updateCertificate ==
  \E caller \in env.callers, id \in 1..MaxCertificates, body \in CertificateBodies :
    LET e ==
          IF ~allowRoles({1, 2, 3}, caller) \/ ~canWrite(caller.role_id)
            THEN Refuse(certificates, serials.certificates, 403, "Forbidden")
          ELSE IF certScopedStatementFails(caller)
            THEN Refuse(certificates, serials.certificates, 500, "Failed to update certificate")
          ELSE IF id \notin DOMAIN certificates \/ ~certScope(caller, certificates[id])
            THEN Refuse(certificates, serials.certificates, 404, "Certificate not found")
          ELSE IF /\ caller.role_id = ROLE_ADMIN
                  /\ body.company_id # NULL /\ body.company_id # caller.company_id
            THEN Refuse(certificates, serials.certificates, 403, "Forbidden (company scope)")
          ELSE IF /\ caller.role_id = ROLE_SUBADMIN
                  /\ \/ body.company_id # NULL /\ body.company_id # caller.company_id
                     \/ body.ship_id # NoShip /\ body.ship_id # caller.ship_id
            THEN Refuse(certificates, serials.certificates, 403, "Forbidden (ship scope)")
          ELSE IF body.status # NULL /\ body.status \notin CERT_STATUS
            THEN Refuse(certificates, serials.certificates, 400, "Invalid status")
          ELSE Effect([certificates EXCEPT ![id] =
                         Certificate(Coalesce(body.user_id, @.user_id, NoUser),
                                     Coalesce(body.company_id, @.company_id, NULL),
                                     Coalesce(body.ship_id, @.ship_id, NoShip),
                                     Coalesce(body.status, @.status, NULL))],
                      serials.certificates, Response(200, "Certificate updated"))
    IN  Write("certificates", "updateCertificate", caller, {id}, body, e)

deleteCertificate ==
  \E caller \in env.callers, id \in 1..MaxCertificates :
    LET e ==
          IF ~allowRoles({1, 2, 3}, caller) \/ ~canWrite(caller.role_id)
            THEN Refuse(certificates, serials.certificates, 403, "Forbidden")
          ELSE IF certScopedStatementFails(caller)
            THEN Refuse(certificates, serials.certificates, 500, "Failed to delete certificate")
          ELSE IF id \notin DOMAIN certificates \/ ~certScope(caller, certificates[id])
            THEN Refuse(certificates, serials.certificates, 404, "Certificate not found")
          ELSE Effect(Without(certificates, id), serials.certificates,
                      Response(200, "Certificate deleted"))
    IN  Write("certificates", "deleteCertificate", caller, {id}, <<>>, e)

-----------------------------------------------------------------------------
(* assessmentsController.  The question tree of an assessment is written and *)
(* deleted with its row inside one transaction on a client checked out with  *)
(* db.connect(); the row carries the tree as its questions.                  *)

Assessment(company, ship, creator, title, status) ==
  [company_id |-> company, ship_id |-> ship, created_by_user_id |-> creator,
   title |-> title, status |-> status, questions |-> <<>>]

AssessmentBody(company, ship, title, status, questions) ==
  [company_id |-> company, ship_id |-> ship, title |-> title, status |-> status,
   questions |-> questions]

\* the row of assessment_questions with the first n rows of assessment_options
storedQuestion(q, n) ==
  [question_text |-> q.question_text,
   options |-> [j \in 1..n |-> q.options[j].option_text]]

\* for (const q of questions) { INSERT INTO assessment_questions; for (const o of
\* q.options) INSERT INTO assessment_options }: the rows written, and whether an
\* INSERT threw
RECURSIVE insertQuestions(_, _)
insertQuestions(stored, todo) ==
  IF todo = <<>> THEN [questions |-> stored, thrown |-> FALSE]
  ELSE LET q == Head(todo)
           refused == {j \in DOMAIN q.options : ~q.options[j].accepted}
           n == IF refused = {} THEN Len(q.options)
                ELSE (CHOOSE j \in refused : \A k \in refused : j <= k) - 1
       IN  IF ~q.accepted THEN [questions |-> stored, thrown |-> TRUE]
           ELSE IF refused # {}
             THEN [questions |-> Append(stored, storedQuestion(q, n)), thrown |-> TRUE]
           ELSE insertQuestions(Append(stored, storedQuestion(q, n)), Tail(todo))

\* await client.query('ROLLBACK') on the client that ran BEGIN and every write
rolledBack(before, working) == before

\* the Crew scope without the condition on status
assessScopeAnyStatus(caller, row) ==
  CASE caller.role_id = ROLE_SUPERADMIN -> TRUE
    [] caller.role_id = ROLE_ADMIN -> row.company_id = caller.company_id
    [] caller.role_id = ROLE_SUBADMIN ->
         row.company_id = caller.company_id /\ row.ship_id = caller.ship_id
    [] OTHER -> /\ row.company_id = caller.company_id
                /\ (row.ship_id = NoShip \/ row.ship_id = caller.ship_id)

\* assessScope(req, alias, startIndex): the rows of the caller's scope
assessScope(caller, row) ==
  CASE caller.role_id = ROLE_SUPERADMIN -> TRUE
    [] caller.role_id = ROLE_ADMIN -> row.company_id = caller.company_id
    [] caller.role_id = ROLE_SUBADMIN ->
         row.company_id = caller.company_id /\ row.ship_id = caller.ship_id
    [] OTHER -> /\ row.status = "published"
                /\ row.company_id = caller.company_id
                /\ (row.ship_id = NoShip \/ row.ship_id = caller.ship_id)

\* the SELECT of getAssessmentById over a table
assessmentById(caller, tbl, id) ==
  IF id \in DOMAIN tbl /\ assessScope(caller, tbl[id])
    THEN [Response(200, "") EXCEPT !.rows = {id}]
    ELSE Response(404, "Assessment not found")

\* the request bodies of the assessment handlers
AssessmentBodies(titles) ==
  {AssessmentBody(t[1], t[2], ti, st, q) :
     t \in env.tenancies \cup env.moves, ti \in titles, st \in {NULL, "published"},
     q \in env.trees}

createAssessment ==
  \E caller \in env.callers, body \in AssessmentBodies({NULL, "t1"}) :
    LET e ==
          IF ~allowRoles({1, 2, 3}, caller) \/ ~canWrite(caller.role_id)
            THEN Refuse(assessments, serials.assessments, 403, "Forbidden")
          ELSE IF caller.company_id = NULL
            THEN Refuse(assessments, serials.assessments, 400, "Token missing company_id")
          ELSE IF body.title = NULL
            THEN Refuse(assessments, serials.assessments, 400, "title is required")
          ELSE IF /\ caller.role_id = ROLE_SUBADMIN
                  /\ body.ship_id # NoShip /\ body.ship_id # caller.ship_id
            THEN Refuse(assessments, serials.assessments, 403, "Forbidden (ship scope)")
          ELSE LET id == serials.assessments
                   tree == insertQuestions(<<>>, body.questions.list)
                   row == Assessment(caller.company_id, body.ship_id, caller.user_id,
                                     body.title, Coalesce(body.status, "draft", NULL))
                   tbl == assessments @@ (id :> [row EXCEPT !.questions = tree.questions])
               IN  IF tree.thrown
                     THEN Effect(rolledBack(assessments, tbl), id + 1,
                                 Response(500, "Failed to create assessment"))
                     ELSE Effect(tbl, id + 1, assessmentById(caller, tbl, id))
    IN  Write("assessments", "createAssessment", caller,
              DOMAIN e.tbl \ DOMAIN assessments, body, e)

updateAssessment ==
  \E caller \in env.callers, id \in 1..MaxAssessments, body \in AssessmentBodies({NULL}) :
    LET e ==
          IF ~allowRoles({1, 2, 3}, caller) \/ ~canWrite(caller.role_id)
            THEN Refuse(assessments, serials.assessments, 403, "Forbidden")
          ELSE IF id \notin DOMAIN assessments \/ ~assessScope(caller, assessments[id])
            THEN Refuse(assessments, serials.assessments, 404, "Assessment not found")
          ELSE IF /\ caller.role_id = ROLE_ADMIN
                  /\ body.company_id # NULL /\ body.company_id # caller.company_id
            THEN Refuse(assessments, serials.assessments, 403, "Forbidden (company scope)")
          ELSE IF /\ caller.role_id = ROLE_SUBADMIN
                  /\ \/ body.company_id # NULL /\ body.company_id # caller.company_id
                     \/ body.ship_id # NoShip /\ body.ship_id # caller.ship_id
            THEN Refuse(assessments, serials.assessments, 403, "Forbidden (ship scope)")
          ELSE LET tree == IF body.questions.given
                             THEN insertQuestions(<<>>, body.questions.list)
                             ELSE [questions |-> assessments[id].questions, thrown |-> FALSE]
                   tbl == [assessments EXCEPT
                             ![id].company_id = Coalesce(body.company_id, @, NULL),
                             ![id].ship_id = Coalesce(body.ship_id, @, NoShip),
                             ![id].title = Coalesce(body.title, @, NULL),
                             ![id].status = Coalesce(body.status, @, NULL),
                             ![id].questions = tree.questions]
               IN  IF tree.thrown
                     THEN Effect(rolledBack(assessments, tbl), serials.assessments,
                                 Response(500, "Failed to update assessment"))
                     ELSE Effect(tbl, serials.assessments, assessmentById(caller, tbl, id))
    IN  Write("assessments", "updateAssessment", caller, {id}, body, e)

deleteAssessment ==
  \E caller \in env.callers, id \in 1..MaxAssessments :
    LET e ==
          IF ~allowRoles({1, 2, 3}, caller) \/ ~canWrite(caller.role_id)
            THEN Refuse(assessments, serials.assessments, 403, "Forbidden")
          ELSE IF id \notin DOMAIN assessments \/ ~assessScope(caller, assessments[id])
            THEN Refuse(assessments, serials.assessments, 404, "Assessment not found")
          ELSE Effect(Without(assessments, id), serials.assessments,
                      Response(200, "Assessment deleted"))
    IN  Write("assessments", "deleteAssessment", caller, {id}, <<>>, e)

getAllAssessments ==
  \E caller \in env.callers :
    LET resp ==
          IF ~allowRoles({1, 2, 3, 4}, caller)
            THEN Response(403, "Forbidden")
            ELSE [Response(200, "") EXCEPT
                    !.rows = {a \in DOMAIN assessments : assessScope(caller, assessments[a])}]
    IN  Answer("getAllAssessments", caller, {}, resp)

getAssessmentById ==
  \E caller \in env.callers, id \in 1..MaxAssessments :
    LET resp ==
          IF ~allowRoles({1, 2, 3, 4}, caller)
            THEN Response(403, "Forbidden")
            ELSE assessmentById(caller, assessments, id)
    IN  Answer("getAssessmentById", caller, {id}, resp)

-----------------------------------------------------------------------------
(* companyController: createCompany, deleteCompany.  Both send BEGIN, their  *)
(* statements and COMMIT or ROLLBACK through db.query, each on whichever     *)
(* pooled connection it is handed.                                           *)

\* company_id values in the order the table generates them
CompanyId(n) == IF n = 1 THEN "A" ELSE IF n = 2 THEN "B" ELSE "C"

\* `COMPANY:${company.company_id}`
CompanySeafarer(id) == IF id = "A" THEN "COMPANY:A" ELSE "COMPANY:B"

Company(name, uname, hash) == [company_name |-> name, username |-> uname, password_hash |-> hash]

CompanyBody(name, uname, password) ==
  [company_name |-> name, username |-> uname, password |-> password]

\* what a company handler leaves behind
CompanyOutcome(u, n, tbl, serial, resp) ==
  [users |-> u, nextUserId |-> n, tbl |-> tbl, serial |-> serial, resp |-> resp]

CompanyUnchanged(code, error) ==
  CompanyOutcome(users, nextUserId, companies, serials.companies, Response(code, error))

ensureRoleAny(caller, allowedRoles) == TRUE

ensureRole(caller, allowedRoles) == caller.role_id # 0 /\ caller.role_id \in allowedRoles

\* makeUniqueUsername(base): the cleaned base if free, else one of the random
\* candidates that is free; none if every try is taken
makeUniqueUsername(base) ==
  LET taken(u) == \E j \in DOMAIN users : users[j].username = u
  IN  IF ~taken(<<base, 0>>) THEN {<<base, 0>>}
      ELSE {<<base, k>> : k \in {k \in env.suffixes : ~taken(<<base, k>>)}}

\* DELETE FROM users WHERE company_id = $1 AND role_id = 2 AND ship_id IS NULL
withoutCompanyAdmins(id) ==
  [u \in {u \in DOMAIN users :
            ~(users[u].company_id = id /\ users[u].role_id = ROLE_ADMIN
              /\ users[u].ship_id = NoShip)} |-> users[u]]

\* a company handler ran to its response
ApplyCompany(op, caller, target, req, o) ==
  /\ o.nextUserId <= MaxUsers + 1
  /\ o.serial <= MaxCompanies + 1
  /\ Created([serials EXCEPT !.companies = o.serial]) <= MaxResourceRows
  /\ users' = o.users
  /\ nextUserId' = o.nextUserId
  /\ companies' = o.tbl
  /\ serials' = [serials EXCEPT !.companies = o.serial]
  /\ last' = Last(op, caller, target, req, o.resp)
  /\ UNCHANGED <<sessions, env, pc, loc, txn, ships, certificates, assessments, incidents>>

\* the INSERT INTO users throws on a duplicate seafarer_id or username; the catch block
\* answers 500, and its ROLLBACK undoes the INSERT INTO company only if BEGIN, that
\* INSERT and the ROLLBACK ran on the same connection
createCompany ==
  \E caller \in env.callers, n \in {NULL, "Acme"}, u \in {NULL, "acme"}, p \in env.passwords :
    LET body == CompanyBody(n, u, p)
        results ==
          IF ~ensureRole(caller, {ROLE_SUPERADMIN})
            THEN {CompanyUnchanged(403, "Forbidden")}
          ELSE IF body.company_name = NULL
            THEN {CompanyUnchanged(400, "company_name is required")}
          ELSE IF body.username = NULL \/ body.password = NULL
            THEN {CompanyUnchanged(400, "username and password are required for company admin login")}
          ELSE IF \E c \in DOMAIN companies : companies[c].username = <<body.username, 0>>
            THEN {CompanyUnchanged(409, "Company username already exists")}
          ELSE IF makeUniqueUsername(body.username) = {}
            THEN {CompanyUnchanged(500, "Failed to create company")}
          ELSE UNION { LET id == CompanyId(serials.companies)
                           admin == Row(CompanySeafarer(id), ROLE_ADMIN, id, NoShip, Onboard,
                                        uname, hashPassword(body.password),
                                        encryptPassword(body.password))
                           stored == companies @@ (id :> Company(body.company_name, uname,
                                                                 hashPassword(body.password)))
                       IN  IF UniqueViolation(users, nextUserId, admin)
                             THEN {CompanyOutcome(users, nextUserId + 1, tbl,
                                                  serials.companies + 1,
                                                  Response(500, "Failed to create company"))
                                   : tbl \in {companies, stored}}
                             ELSE {CompanyOutcome(users @@ (nextUserId :> admin),
                                                  nextUserId + 1, stored, serials.companies + 1,
                                                  [Response(201, "") EXCEPT !.rows = {id}])}
                       : uname \in makeUniqueUsername(body.username) }
    IN  \E o \in results : ApplyCompany("createCompany", caller, o.resp.rows, body, o)

\* when the company is missing the ROLLBACK undoes the deletion of its admin users only
\* if BEGIN, that DELETE and the ROLLBACK ran on the same connection
deleteCompany ==
  \E caller \in env.callers, i \in 1..MaxCompanies :
    LET id == CompanyId(i)
        results ==
          IF ~ensureRole(caller, {ROLE_SUPERADMIN})
            THEN {CompanyUnchanged(403, "Forbidden")}
          ELSE IF id \notin DOMAIN companies
            THEN {CompanyOutcome(u, nextUserId, companies, serials.companies,
                                 Response(404, "Company not found"))
                  : u \in {users, withoutCompanyAdmins(id)}}
          ELSE {CompanyOutcome(withoutCompanyAdmins(id), nextUserId, Without(companies, id),
                               serials.companies, Response(200, "Company deleted"))}
    IN  \E o \in results : ApplyCompany("deleteCompany", caller, {id}, <<>>, o)

\* the role gates: callers of the four roles over ships, certificates, assessments and
\* companies of one tenant
GatesEnv ==
  Env({SuperAdmin, AdminA, SubAdminA1, CrewA1}, {<<"A", 1>>}, {<<NULL, NoShip>>}, {0},
      {Onboard}, {NullStatus}, {"p1"}, {1})

InitGates == InitTables /\ env = GatesEnv

NextGates ==
  \/ createShip
  \/ updateShip
  \/ deleteShip
  \/ createCertificate
  \/ updateCertificate
  \/ deleteCertificate
  \/ createAssessment
  \/ updateAssessment
  \/ deleteAssessment
  \/ createCompany
  \/ deleteCompany

SpecGates == InitGates /\ [][NextGates]_vars

\* the roles a write handler is open to
AllowSet(op) ==
  CASE op \in {"createCertificate", "updateCertificate", "deleteCertificate",
               "createAssessment", "updateAssessment", "deleteAssessment"} ->
         {ROLE_SUPERADMIN, ROLE_ADMIN, ROLE_SUBADMIN}
    [] op \in {"createShip", "updateShip", "deleteShip"} -> {ROLE_SUPERADMIN, ROLE_ADMIN}
    [] op \in {"createCompany", "deleteCompany"} -> {ROLE_SUPERADMIN}
    [] OTHER -> {ROLE_SUPERADMIN, ROLE_ADMIN, ROLE_SUBADMIN, ROLE_CREW}

C12_Step ==
  last'.caller.role_id \notin AllowSet(last'.op)
    => /\ last'.resp.code = 403
       /\ UNCHANGED <<users, ships, certificates, assessments, incidents, companies>>

\* C12: only SuperAdmin, Admin and SubAdmin can create, update or delete a certificate or
\* an assessment, only SuperAdmin and Admin a ship, only SuperAdmin can create or delete
\* a company; a caller outside the allow-set gets 403 and no table changes.
C12_RoleGates == [][C12_Step]_vars

\* an Admin was refused the deletion of its own company, which is still there with its
\* admin account
C12_Witness ==
  /\ last.op = "deleteCompany"
  /\ last.caller = AdminA
  /\ last.target \subseteq DOMAIN companies
  /\ \E u \in DOMAIN users : users[u].company_id \in last.target
  /\ last.resp.code = 403

-----------------------------------------------------------------------------
(* incidentsController *)

CrewA2 == Principal(3, ROLE_CREW, "A", 2)

\* visible_to_ship_only is "true", "false" or absent (NULL)
Incident(ship, company, reporter, visible, deleted) ==
  [ship_id |-> ship, company_id |-> company, reported_by_user_id |-> reporter,
   visible_to_ship_only |-> visible, is_deleted |-> deleted]

IncidentBody(ship, company, reporter, visible, title) ==
  [ship_id |-> ship, company_id |-> company, reported_by_user_id |-> reporter,
   visible_to_ship_only |-> visible, title |-> title]

\* buildIncidentListQuery(user): the WHERE clause of the caller's role
buildIncidentListQuery(caller, row) ==
  /\ ~row.is_deleted
  /\ CASE caller.role_id = ROLE_SUPERADMIN -> TRUE
       [] caller.role_id = ROLE_ADMIN -> row.company_id = caller.company_id
       [] caller.role_id = ROLE_SUBADMIN ->
            row.company_id = caller.company_id /\ row.ship_id = caller.ship_id
       [] OTHER ->
            \/ row.reported_by_user_id = caller.user_id
            \/ row.ship_id = caller.ship_id /\ row.visible_to_ship_only = "true"
            \/ row.company_id = caller.company_id /\ row.visible_to_ship_only # "true"

canSeeIncident(caller, incident) ==
  IF caller.role_id = ROLE_SUPERADMIN THEN TRUE
  ELSE IF caller.role_id = ROLE_ADMIN THEN incident.company_id = caller.company_id
  ELSE IF caller.role_id = ROLE_SUBADMIN
    THEN incident.company_id = caller.company_id /\ incident.ship_id = caller.ship_id
  ELSE IF incident.reported_by_user_id = caller.user_id THEN TRUE
  ELSE IF incident.ship_id = caller.ship_id /\ incident.visible_to_ship_only = "true" THEN TRUE
  ELSE IF incident.company_id = caller.company_id /\ incident.visible_to_ship_only # "true"
    THEN TRUE
  ELSE FALSE

\* a Crew caller and an incident somebody else reported
notOwnIncidentNever(caller, incident) == FALSE

\* req.user.role_id === ROLE_CREW && incident.reported_by_user_id !== req.user.user_id
notOwnIncident(caller, incident) ==
  caller.role_id = ROLE_CREW /\ incident.reported_by_user_id # caller.user_id

\* the SELECT by id without its is_deleted test
incidentFoundAlsoDeleted(id) == id \in DOMAIN incidents

\* SELECT * FROM incident_reports WHERE incident_id = $1 AND is_deleted IS NOT TRUE
incidentFound(id) == id \in DOMAIN incidents /\ ~incidents[id].is_deleted

getAllIncidents ==
  \E caller \in env.callers :
    Answer("getAllIncidents", caller, {},
           [Response(200, "") EXCEPT
              !.rows = {i \in DOMAIN incidents : buildIncidentListQuery(caller, incidents[i])}])

getIncidentById ==
  \E caller \in env.callers, id \in 1..MaxIncidents :
    LET resp ==
          IF ~incidentFound(id) THEN Response(404, "Incident not found")
          ELSE IF ~canSeeIncident(caller, incidents[id]) THEN Response(403, "Forbidden")
          ELSE [Response(200, "") EXCEPT !.rows = {id}]
    IN  Answer("getIncidentById", caller, {id}, resp)

createIncident ==
  \E caller \in env.callers, ship \in 1..MaxShips, c \in Companies \cup {NULL},
     r \in {NoUser, 1}, v \in {NULL, "true"}, title \in {"t1"} :
    LET body == IncidentBody(ship, c, r, v, title)
        same(code, error) == Refuse(incidents, serials.incidents, code, error)
        shipCompanyId == ships[body.ship_id].company_id
        finalCompanyId == Coalesce(body.company_id, shipCompanyId, NULL)
        reporterId ==
          IF caller.role_id = ROLE_SUPERADMIN /\ body.reported_by_user_id # NoUser
            THEN body.reported_by_user_id
            ELSE caller.user_id
        e ==
          IF body.ship_id = NoShip THEN same(400, "ship_id must be a number")
          ELSE IF body.title = NULL THEN same(400, "title is required")
          ELSE IF body.ship_id \notin DOMAIN ships THEN same(404, "Ship not found")
          ELSE IF finalCompanyId # shipCompanyId
            THEN same(400, "company_id mismatch with ship.company_id")
          ELSE IF caller.role_id = ROLE_ADMIN /\ finalCompanyId # caller.company_id
            THEN same(403, "Forbidden (company scope)")
          ELSE IF /\ caller.role_id \in {ROLE_SUBADMIN, ROLE_CREW}
                  /\ (finalCompanyId # caller.company_id \/ body.ship_id # caller.ship_id)
            THEN same(403, "Forbidden (ship scope)")
          ELSE Effect(incidents @@
                        (serials.incidents :>
                           Incident(body.ship_id, finalCompanyId, reporterId,
                                    Coalesce(body.visible_to_ship_only, "false", NULL), FALSE)),
                      serials.incidents + 1,
                      [Response(201, "") EXCEPT !.rows = {serials.incidents}])
    IN  Write("incidents", "createIncident", caller, e.resp.rows, body, e)

updateIncident ==
  \E caller \in env.callers, id \in 1..MaxIncidents, ship \in {NoShip, MaxShips},
     c \in {NULL, "B"}, v \in {NULL, "true", "false"} :
    LET body == IncidentBody(ship, c, NoUser, v, NULL)
        same(code, error) == Refuse(incidents, serials.incidents, code, error)
        lower == caller.role_id \in {ROLE_ADMIN, ROLE_SUBADMIN, ROLE_CREW}
        e ==
          IF ~incidentFound(id) THEN same(404, "Incident not found")
          ELSE IF ~canSeeIncident(caller, incidents[id]) THEN same(403, "Forbidden")
          ELSE IF notOwnIncident(caller, incidents[id])
            THEN same(403, "Forbidden (only own incident)")
          ELSE IF lower /\ body.company_id # NULL /\ body.company_id # caller.company_id
            THEN same(403, "Forbidden (cannot change company_id)")
          ELSE IF /\ caller.role_id \in {ROLE_SUBADMIN, ROLE_CREW}
                  /\ body.ship_id # NoShip /\ body.ship_id # caller.ship_id
            THEN same(403, "Forbidden (cannot change ship_id)")
          ELSE Effect([incidents EXCEPT ![id].visible_to_ship_only =
                         Coalesce(body.visible_to_ship_only, @, NULL)],
                      serials.incidents, Response(200, "Incident updated"))
    IN  Write("incidents", "updateIncident", caller, {id}, body, e)

deleteIncident ==
  \E caller \in env.callers, id \in 1..MaxIncidents :
    LET same(code, error) == Refuse(incidents, serials.incidents, code, error)
        e ==
          IF ~incidentFound(id) THEN same(404, "Incident not found")
          ELSE IF ~canSeeIncident(caller, incidents[id]) THEN same(403, "Forbidden")
          ELSE IF notOwnIncident(caller, incidents[id])
            THEN same(403, "Forbidden (only own incident)")
          ELSE Effect([incidents EXCEPT ![id].is_deleted = TRUE], serials.incidents,
                      Response(200, "Incident deleted (soft delete)"))
    IN  Write("incidents", "deleteIncident", caller, {id}, <<>>, e)

\* incidents on ships of two companies, seen by callers of four roles and by Crew of two
\* ships
IncidentsEnv ==
  Env({SuperAdmin, AdminA, SubAdminA1, CrewA1, CrewA2}, {<<"A", 1>>, <<"B", 1>>},
      {<<NULL, NoShip>>}, {0}, {Onboard}, {NullStatus}, {"p1"}, {1})

InitIncidents == InitTables /\ env = IncidentsEnv

NextIncidents ==
  \/ createShip
  \/ createIncident
  \/ updateIncident
  \/ deleteIncident
  \/ getAllIncidents
  \/ getIncidentById

SpecIncidents == InitIncidents /\ [][NextIncidents]_vars

\* the visibility of a non-deleted incident as stated: by role, and for Crew the
\* three-way OR of self-authorship, own ship, own company without the ship-only flag
VisibleAsStated(caller, row) ==
  CASE caller.role_id = ROLE_SUPERADMIN -> TRUE
    [] caller.role_id = ROLE_ADMIN -> row.company_id = caller.company_id
    [] caller.role_id = ROLE_SUBADMIN ->
         row.company_id = caller.company_id /\ row.ship_id = caller.ship_id
    [] OTHER ->
         \/ row.reported_by_user_id = caller.user_id
         \/ row.ship_id = caller.ship_id
         \/ row.company_id = caller.company_id /\ row.visible_to_ship_only # "true"

C13_Step ==
  /\ last'.op = "getAllIncidents" =>
        last'.resp.rows =
          {i \in DOMAIN incidents :
             ~incidents[i].is_deleted /\ VisibleAsStated(last'.caller, incidents[i])}
  /\ last'.op = "getIncidentById" =>
        \A id \in last'.target :
          incidentFound(id) =>
            /\ last'.resp.code = 200 <=> VisibleAsStated(last'.caller, incidents[id])
            /\ last'.resp.code = 200 <=> buildIncidentListQuery(last'.caller, incidents[id])

\* C13: a non-deleted incident is visible to a Crew caller, in getAllIncidents and in
\* getIncidentById, iff the caller reported it, or it is on the caller's ship, or it is in
\* the caller's company with visible_to_ship_only not set; an Admin sees exactly the
\* incidents of its company, a SubAdmin exactly those of its company and ship; the list
\* and the get-by-id decision agree for every caller and incident.
C13_IncidentVisibility == [][C13_Step]_vars

C14_Step ==
  /\ (last'.op \in {"updateIncident", "deleteIncident"} /\ last'.caller.role_id = ROLE_CREW) =>
        \A id \in last'.target :
          \/ /\ incidentFound(id)
             /\ incidents[id].reported_by_user_id = last'.caller.user_id
          \/ /\ last'.resp.code # 200
             /\ incidents' = incidents
  /\ (last'.op = "createIncident" /\ last'.caller.role_id \in {ROLE_SUBADMIN, ROLE_CREW}) =>
        IF last'.resp.code = 201
          THEN \A id \in last'.target :
                 /\ incidents'[id].ship_id = last'.caller.ship_id
                 /\ incidents'[id].company_id = last'.caller.company_id
          ELSE incidents' = incidents
  /\ (last'.op = "createIncident" /\ last'.resp.code = 201) =>
        \A id \in last'.target :
          incidents'[id].reported_by_user_id =
            IF /\ last'.caller.role_id = ROLE_SUPERADMIN
               /\ last'.req.reported_by_user_id # NoUser
              THEN last'.req.reported_by_user_id
              ELSE last'.caller.user_id

\* C14: a Crew caller updates or soft-deletes an incident only if its
\* reported_by_user_id is the caller's user id; a SubAdmin or Crew caller creates an
\* incident only on its own ship and company; the stored reported_by_user_id of a created
\* incident is the caller's id unless the caller is SuperAdmin and names another reporter.
C14_IncidentWrites == [][C14_Step]_vars

\* a Crew caller was refused the soft delete of an incident it can see and did not report
C14_Witness ==
  /\ last.op = "deleteIncident"
  /\ last.caller.role_id = ROLE_CREW
  /\ \E id \in last.target :
        /\ incidentFound(id)
        /\ canSeeIncident(last.caller, incidents[id])
        /\ incidents[id].reported_by_user_id # last.caller.user_id
  /\ last.resp.code = 403

-----------------------------------------------------------------------------
(* Assessments as the four roles are returned them *)

AssessmentsEnv ==
  Env({SuperAdmin, AdminA, SubAdminA1, CrewA1}, {<<"A", 1>>, <<"A", 2>>, <<"B", 1>>},
      {<<NULL, NoShip>>}, {0}, {Onboard}, {NullStatus}, {"p1"}, {1})

InitAssessments == InitTables /\ env = AssessmentsEnv

NextAssessments ==
  \/ createAssessment
  \/ updateAssessment
  \/ deleteAssessment
  \/ getAllAssessments
  \/ getAssessmentById

SpecAssessments == InitAssessments /\ [][NextAssessments]_vars

\* the assessments a Crew caller may be returned
CrewMayRead(caller, a) ==
  /\ a.status = "published"
  /\ a.company_id = caller.company_id
  /\ (a.ship_id = NoShip \/ a.ship_id = caller.ship_id)

C15_Step ==
  last'.op \in {"getAllAssessments", "getAssessmentById"} =>
    LET caller == last'.caller
        asked == IF last'.op = "getAllAssessments" THEN DOMAIN assessments
                 ELSE last'.target \cap DOMAIN assessments
    IN  CASE caller.role_id = ROLE_CREW ->
               \A id \in last'.resp.rows :
                 id \in DOMAIN assessments /\ CrewMayRead(caller, assessments[id])
          [] caller.role_id = ROLE_ADMIN ->
               last'.resp.rows =
                 {id \in asked : assessments[id].company_id = caller.company_id}
          [] caller.role_id = ROLE_SUBADMIN ->
               last'.resp.rows =
                 {id \in asked : /\ assessments[id].company_id = caller.company_id
                                  /\ assessments[id].ship_id = caller.ship_id}
          [] OTHER -> TRUE

\* C15: a Crew caller is returned an assessment, by getAllAssessments and by
\* getAssessmentById, only if its status is 'published', its company_id is the caller's
\* and its ship_id is null or the caller's; an Admin is returned exactly the assessments
\* of its company and a SubAdmin exactly those of its company and ship, in any status.
C15_AssessmentsByRole == [][C15_Step]_vars

\* a Crew caller asked for a draft of its own company and ship and was not returned it
C15_Witness ==
  /\ last.op = "getAssessmentById"
  /\ last.caller.role_id = ROLE_CREW
  /\ \E id \in last.target :
        /\ id \in DOMAIN assessments
        /\ assessments[id].status = "draft"
        /\ assessments[id].company_id = last.caller.company_id
        /\ assessments[id].ship_id = last.caller.ship_id
  /\ last.resp.code = 404
  /\ last.resp.rows = {}

-----------------------------------------------------------------------------
(* authController: refreshAccessToken, logout *)


\* the claims of the access token of an account, without its company and ship
signAccessTokenRoleOnly(uid, user) == Principal(uid, user.role_id, NULL, NoShip)

signAccessToken(uid, user) == Principal(uid, user.role_id, user.company_id, user.ship_id)

\* every session of the owner of the session with the given token
revokeSessionsOfOwner(sess, token) ==
  [i \in DOMAIN sess |->
     IF token \in DOMAIN sess /\ sess[i].user_id = sess[token].user_id
       THEN [sess[i] EXCEPT !.revoked = TRUE] ELSE sess[i]]

\* UPDATE refresh_sessions SET revoked_at = NOW() WHERE refresh_token_hash = $1
revokeSession(sess, token) ==
  [i \in DOMAIN sess |-> IF i = token THEN [sess[i] EXCEPT !.revoked = TRUE] ELSE sess[i]]

\* a session lookup that refuses unknown tokens only
sessionRefusalUnknownOnly(sess, token) ==
  IF token \notin DOMAIN sess THEN "Invalid refresh token" ELSE NULL

\* the lookup by refresh_token_hash and the tests of revoked_at and expires_at: the error
\* the session is refused with, NULL if it is accepted
sessionRefusal(sess, token) ==
  IF token \notin DOMAIN sess THEN "Invalid refresh token"
  ELSE IF sess[token].revoked THEN "Refresh token revoked"
  ELSE IF sess[token].expired THEN "Refresh token expired"
  ELSE NULL

refreshAccessToken ==
  \E token \in {NoToken} \cup 1..MaxSessions :
    LET session == sessions[token]
        user == users[session.user_id]
        resp ==
          IF token = NoToken THEN Response(400, "refresh_token is required")
          ELSE IF sessionRefusal(sessions, token) # NULL
            THEN Response(401, sessionRefusal(sessions, token))
          ELSE IF session.user_id \notin DOMAIN users THEN Response(401, "User not found")
          ELSE IF ~isAdminRole(user.role_id) /\ ~isOnboard(user.status)
            THEN Response(403, "User is not onboard. Login disabled.")
          ELSE [Response(200, "") EXCEPT !.rows = {signAccessToken(session.user_id, user)}]
    IN  Answer("refreshAccessToken", Anonymous, {token}, resp)

logout ==
  \E token \in {NoToken} \cup 1..MaxSessions :
    LET o == IF token = NoToken
               THEN Unchanged(Response(400, "refresh_token is required"))
               ELSE Outcome(users, nextUserId, revokeSession(sessions, token),
                            Response(200, "Logged out"))
    IN  Apply("logout", Anonymous, {token}, <<>>, o)

\* the clock passes the expires_at of a session
expireSession ==
  \E token \in DOMAIN sessions :
    /\ ~sessions[token].expired
    /\ sessions' = [sessions EXCEPT ![token].expired = TRUE]
    /\ last' = Last("expireSession", Anonymous, {token}, <<>>, Response(0, ""))
    /\ UNCHANGED <<users, nextUserId, env, pc, loc, txn, resources>>

\* signing in with accounts of the four roles, onboard and offboarded
SignInEnv ==
  Env({SuperAdmin}, {<<"A", 1>>}, {<<NULL, NoShip>>},
      {0, ROLE_SUPERADMIN, ROLE_ADMIN, ROLE_SUBADMIN},
      {Onboard}, {Offboard}, {"p1", "p2"}, {1})

InitSignIn == InitTables /\ env = SignInEnv

NextSignIn ==
  \/ createUser
  \/ updateUser
  \/ login

SpecSignIn == InitSignIn /\ [][NextSignIn]_vars

\* the accounts a login request may sign in: the username is theirs, the password hashes
\* to their password_hash, and they have an administrative role or an onboard status
MaySignIn(req) ==
  {u \in DOMAIN users :
     /\ users[u].username = req.username
     /\ users[u].password_hash = hashPassword(req.password)
     /\ \/ users[u].role_id \in {ROLE_SUPERADMIN, ROLE_ADMIN, ROLE_SUBADMIN}
        \/ users[u].status.word = "onboard"}

C16_Step ==
  last'.op = "login" =>
    IF MaySignIn(last'.req) # {}
      THEN /\ last'.resp.code = 200
           /\ \E u \in MaySignIn(last'.req) :
                 sessions' = Append(sessions, [user_id |-> u, revoked |-> FALSE,
                                               expired |-> FALSE])
      ELSE /\ last'.resp.code # 200
           /\ sessions' = sessions

\* C16: login succeeds for a SuperAdmin, Admin or SubAdmin account whenever the username
\* exists and the password hash matches, whatever its status, and for a Crew account only
\* if in addition its status is 'onboard' after trim and lowercase; a successful login
\* stores exactly one new refresh session for that account, a failed one stores none.
C16_LoginByRole == [][C16_Step]_vars

\* an offboarded SubAdmin signed in and holds the newest session
C16_Witness ==
  /\ last.op = "login"
  /\ last.resp.code = 200
  /\ \E u \in last.resp.rows :
        /\ users[u].role_id = ROLE_SUBADMIN
        /\ users[u].status.word = "offboard"
        /\ sessions[Len(sessions)].user_id = u

C17_Step ==
  (/\ last'.op = "login"
   /\ \A u \in DOMAIN users :
         users[u].username = last'.req.username
           => users[u].password_hash # hashPassword(last'.req.password))
  => last'.resp = Response(401, "Invalid credentials")

\* C17: login answers 401 'Invalid credentials', and nothing else, both for a username
\* that does not exist and for an existing username with a wrong password, for every
\* account of any role and any status.
C17_UniformRejection == [][C17_Step]_vars

-----------------------------------------------------------------------------
(* Refresh sessions over the life of an account *)

SessionEnv ==
  Env({SuperAdmin}, {<<"A", 1>>}, {<<NULL, NoShip>>, <<"B", 2>>}, {0, ROLE_ADMIN},
      {Onboard}, {NullStatus, Offboard}, {"p1"}, {1})

InitSession == InitTables /\ env = SessionEnv

NextSession ==
  \/ createUser
  \/ updateUser
  \/ deleteUser
  \/ login
  \/ refreshAccessToken
  \/ logout
  \/ expireSession

SpecSession == InitSession /\ [][NextSession]_vars

\* the session of a presented token is there, not revoked and not expired
Live(token) ==
  /\ token \in DOMAIN sessions
  /\ ~sessions[token].revoked
  /\ ~sessions[token].expired

\* the account of a session may be issued tokens: it exists, and it has an
\* administrative role or an onboard status
Eligible(uid) ==
  /\ uid \in DOMAIN users
  /\ \/ users[uid].role_id \in {ROLE_SUPERADMIN, ROLE_ADMIN, ROLE_SUBADMIN}
     \/ users[uid].status.word = "onboard"

C18_Step ==
  /\ last'.op = "refreshAccessToken" =>
        \A token \in last'.target \ {NoToken} :
          /\ last'.resp.code = 200 => Live(token)
          /\ token \notin DOMAIN sessions
                => last'.resp = Response(401, "Invalid refresh token")
          /\ (token \in DOMAIN sessions /\ sessions[token].revoked)
                => last'.resp = Response(401, "Refresh token revoked")
          /\ (token \in DOMAIN sessions /\ ~sessions[token].revoked
               /\ sessions[token].expired)
                => last'.resp = Response(401, "Refresh token expired")
          /\ (Live(token) /\ Eligible(sessions[token].user_id)) => last'.resp.code = 200
          /\ sessions' = sessions
  /\ \A token \in DOMAIN sessions :
        /\ token \in DOMAIN sessions'
        /\ sessions'[token].user_id = sessions[token].user_id
        /\ sessions[token].revoked => sessions'[token].revoked
        /\ sessions[token].expired => sessions'[token].expired

\* C18: refreshAccessToken returns an access token only if a session with the presented
\* token exists, is not revoked and is not expired, refusing in the order unknown, revoked,
\* expired; a session once revoked or expired stays so, and a refresh never modifies,
\* replaces or deletes a session, so the token stays usable until then.
C18_RefreshNeedsLiveSession == [][C18_Step]_vars

\* a session that is both revoked and expired was refused as revoked
C18_Witness ==
  /\ last.op = "refreshAccessToken"
  /\ \E token \in last.target :
        /\ token \in DOMAIN sessions
        /\ sessions[token].revoked
        /\ sessions[token].expired
  /\ last.resp = Response(401, "Refresh token revoked")

C19_Step ==
  last'.op = "refreshAccessToken" =>
    \A token \in last'.target :
      Live(token) =>
        LET uid == sessions[token].user_id IN
        IF uid \notin DOMAIN users
          THEN last'.resp.code = 401 /\ last'.resp.rows = {}
        ELSE IF users[uid].role_id = ROLE_CREW /\ users[uid].status.word # "onboard"
          THEN last'.resp.code = 403 /\ last'.resp.rows = {}
        ELSE /\ last'.resp.code = 200
             /\ last'.resp.rows =
                   {[user_id |-> uid, role_id |-> users[uid].role_id,
                     company_id |-> users[uid].company_id, ship_id |-> users[uid].ship_id]}

\* C19: refreshAccessToken decides on the account's current row: 403 and no token for a
\* Crew account that is no longer onboard, 401 for a deleted account, and otherwise a
\* token whose role_id, company_id and ship_id are the account's values at refresh time.
C19_RefreshReadsCurrentRow == [][C19_Step]_vars

\* a Crew account signed in, was offboarded, and its live session was refused a token
C19_Witness ==
  /\ last.op = "refreshAccessToken"
  /\ \E token \in last.target :
        /\ Live(token)
        /\ sessions[token].user_id \in DOMAIN users
        /\ users[sessions[token].user_id].role_id = ROLE_CREW
        /\ users[sessions[token].user_id].status.word = "offboard"
  /\ last.resp.code = 403

C20_Step ==
  last'.op = "logout" =>
    /\ users' = users
    /\ DOMAIN sessions' = DOMAIN sessions
    /\ \A i \in DOMAIN sessions :
          IF i \in last'.target
            THEN sessions'[i] = [sessions[i] EXCEPT !.revoked = TRUE]
            ELSE sessions'[i] = sessions[i]

\* C20: logout with a refresh token revokes only the session of that token: every other
\* session of the same account and of other accounts is unchanged, and a token that
\* matches no session changes nothing.
C20_LogoutRevokesOne == [][C20_Step]_vars

\* after a logout the account's other session is still live
C20_Witness ==
  /\ last.op = "logout"
  /\ \E token \in last.target, other \in DOMAIN sessions :
        /\ token \in DOMAIN sessions
        /\ other # token
        /\ sessions[token].revoked
        /\ sessions[other].user_id = sessions[token].user_id
        /\ Live(other)

-----------------------------------------------------------------------------
(* authController: forgotPassword, resetPassword *)

MaxResetTokens == 2

\* crypto.createHash('sha256').update(String(token)).digest('hex')
hashResetToken(token) == <<"sha256", token>>

\* a check of the reset token that never looks at reset_token_expires_at
resetTokenRefusalNoExpiry(user, reset_token) ==
  IF user.reset_token_hash = NoText \/ user.reset_token_hash # hashResetToken(reset_token)
    THEN "Invalid reset token"
    ELSE NULL

\* a check of the reset token that accepts any token while one is stored
resetTokenRefusalAnyToken(user, reset_token) ==
  IF user.reset_token_hash = NoText THEN "Invalid reset token"
  ELSE IF user.reset_token_expires_at # "future" THEN "Reset token expired"
  ELSE NULL

\* the two tests of resetPassword on the stored token: the error it answers, NULL when
\* the token is the stored one and reset_token_expires_at is still ahead
resetTokenRefusal(user, reset_token) ==
  IF user.reset_token_hash = NoText \/ user.reset_token_hash # hashResetToken(reset_token)
    THEN "Invalid reset token"
  ELSE IF user.reset_token_expires_at = NULL \/ user.reset_token_expires_at = "past"
    THEN "Reset token expired"
  ELSE NULL

ResetBody(username, reset_token, new_password) ==
  [username |-> username, reset_token |-> reset_token, new_password |-> new_password]

\* POST /auth/forgot-password: a new random token replaces the stored one and is valid
\* for 15 minutes; the n-th value of generateResetToken is written n
forgotPassword ==
  \E username \in Usernames \cup {NoText} :
    LET ids == UserByUsername(username)
        token == serials.reset_tokens
        resp == IF username = NoText THEN Response(400, "username is required")
                ELSE IF ids = {} THEN Response(200, "If account exists, reset token generated")
                ELSE [Response(200, "Reset token generated") EXCEPT !.reset_token = token]
    IN  /\ ids # {} => token <= MaxResetTokens
        /\ users' = [u \in DOMAIN users |->
                       IF u \in ids
                         THEN [users[u] EXCEPT !.reset_token_hash = hashResetToken(token),
                                               !.reset_token_expires_at = "future"]
                         ELSE users[u]]
        /\ serials' = IF ids # {} THEN [serials EXCEPT !.reset_tokens = @ + 1] ELSE serials
        /\ last' = Last("forgotPassword", Anonymous, ids, ResetBody(username, NoToken, NULL),
                        resp)
        /\ UNCHANGED <<nextUserId, sessions, env, pc, loc, txn, ships, certificates,
                       assessments, incidents, companies>>

\* POST /auth/reset-password
resetPassword ==
  \E username \in Usernames, reset_token \in {NoToken} \cup 1..MaxResetTokens,
     new_password \in env.passwords :
    LET ids == UserByUsername(username)
        required == "username, reset_token, new_password are required"
        os == IF reset_token = NoToken THEN {Unchanged(Response(400, required))}
              ELSE IF ids = {} THEN {Unchanged(Response(400, "Invalid reset token"))}
              ELSE {IF resetTokenRefusal(users[u], reset_token) # NULL
                      THEN Unchanged(Response(400, resetTokenRefusal(users[u], reset_token)))
                      ELSE Outcome([users EXCEPT ![u] =
                                      [@ EXCEPT !.password_hash = hashPassword(new_password),
                                                !.password_enc = encryptPassword(new_password),
                                                !.reset_token_hash = NoText,
                                                !.reset_token_expires_at = NULL]],
                                   nextUserId, RevokeSessionsOf(sessions, u),
                                   Response(200, "Password reset successful"))
                    : u \in ids}
    IN  \E o \in os :
          Apply("resetPassword", Anonymous, ids,
                ResetBody(username, reset_token, new_password), o)

\* fifteen minutes pass after a forgotPassword: reset_token_expires_at is behind NOW()
resetTokenExpires ==
  \E u \in DOMAIN users :
    /\ users[u].reset_token_expires_at = "future"
    /\ users' = [users EXCEPT ![u].reset_token_expires_at = "past"]
    /\ last' = Last("resetTokenExpires", Anonymous, {u}, <<>>, Response(0, ""))
    /\ UNCHANGED <<nextUserId, sessions, env, pc, loc, txn, resources>>

\* password reset: onboard crew accounts, two passwords
ResetEnv ==
  Env({SuperAdmin}, {<<"A", 1>>}, {<<NULL, NoShip>>}, {0},
      {Onboard}, {NullStatus}, {"p1", "p2"}, {1})

InitReset == InitTables /\ env = ResetEnv

NextReset ==
  \/ createUser
  \/ login
  \/ forgotPassword
  \/ resetPassword
  \/ resetTokenExpires

SpecReset == InitReset /\ [][NextReset]_vars

\* C21: a resetPassword whose token is the stored one and not expired answers 200, stores
\* the new password and clears reset_token_hash and reset_token_expires_at; with any other
\* token it answers 400 "Invalid reset token", with the stored token after its expiry it
\* answers 400, and in both cases no account and no session changes. A cleared token never
\* comes back: the stored token changes only to null or to a value never generated before,
\* so every later resetPassword with a used token is the "any other token" case.
C21_Step ==
  /\ \A u \in DOMAIN users' :
       users'[u].reset_token_hash # NoText
         => users'[u].reset_token_hash[2] < serials'.reset_tokens
  /\ \A u \in DOMAIN users \cap DOMAIN users' :
       users'[u].reset_token_hash # users[u].reset_token_hash
         => \/ users'[u].reset_token_hash = NoText
            \/ /\ users'[u].reset_token_hash = hashResetToken(serials.reset_tokens)
               /\ serials'.reset_tokens = serials.reset_tokens + 1
  /\ last'.op = "resetPassword" /\ last'.req.reset_token # NoToken
       => \A u \in last'.target :
            LET held == users[u].reset_token_hash = hashResetToken(last'.req.reset_token)
                intime == users[u].reset_token_expires_at = "future"
            IN  IF held /\ intime
                  THEN /\ last'.resp.code = 200
                       /\ users'[u].password_hash = hashPassword(last'.req.new_password)
                       /\ users'[u].reset_token_hash = NoText
                       /\ users'[u].reset_token_expires_at = NULL
                  ELSE /\ last'.resp.code = 400
                       /\ ~held => last'.resp.error = "Invalid reset token"
                       /\ users' = users
                       /\ sessions' = sessions

C21_ResetTokenSingleUse == [][C21_Step]_vars

\* a used token is presented again: the account took the new password of the first
\* resetPassword, its token columns are null, and the replay with another password is
\* refused while a session of the account is live
C21_Witness ==
  /\ last.op = "resetPassword"
  /\ last.resp = Response(400, "Invalid reset token")
  /\ last.req.reset_token < serials.reset_tokens
  /\ nextUserId = 2
  /\ \E u \in last.target :
       /\ users[u].reset_token_hash = NoText
       /\ users[u].password_hash # hashPassword(last.req.new_password)
       /\ \E t \in DOMAIN sessions : sessions[t].user_id = u /\ ~sessions[t].revoked

\* C22: an account holds one reset token at a time. A forgotPassword for an existing
\* account hands out a token different from the one stored before and stores it in the place
\* of the old one; from then on a resetPassword with a token that is not the stored one,
\* the earlier token included, answers 400 "Invalid reset token" and changes nothing, and
\* a resetPassword that answers 200 was made with the stored token.
C22_Step ==
  /\ last'.op = "forgotPassword"
       => \A u \in last'.target :
            /\ last'.resp.reset_token # NoToken
            /\ hashResetToken(last'.resp.reset_token) # users[u].reset_token_hash
            /\ users'[u].reset_token_hash = hashResetToken(last'.resp.reset_token)
            /\ users'[u].reset_token_expires_at = "future"
  /\ last'.op = "resetPassword" /\ last'.req.reset_token # NoToken
       => \A u \in last'.target :
            IF users[u].reset_token_hash = hashResetToken(last'.req.reset_token)
              THEN last'.resp.code = 200 => users'[u].reset_token_hash = NoText
              ELSE /\ last'.resp = Response(400, "Invalid reset token")
                   /\ users' = users
                   /\ sessions' = sessions

C22_OneValidResetToken == [][C22_Step]_vars

\* the only account ever created asked for two tokens; a resetPassword with the first one
\* was refused while the second one is stored and still valid
C22_Witness ==
  /\ nextUserId = 2
  /\ serials.reset_tokens = 3
  /\ last.op = "resetPassword"
  /\ last.req.reset_token = 1
  /\ last.resp = Response(400, "Invalid reset token")
  /\ \E u \in last.target :
       /\ users[u].reset_token_hash = hashResetToken(2)
       /\ users[u].reset_token_expires_at = "future"

-----------------------------------------------------------------------------
(* authController: login and the two password-setting handlers, statement by statement *)

\* what a request in flight remembers between its statements
Job(op, caller, uid, body) == [op |-> op, caller |-> caller, user_id |-> uid, body |-> body]

\* login up to its password test: SELECT the account by username, the onboard gate, the
\* comparison of the hashes
loginSelect(p) ==
  \E username \in Usernames, password \in env.passwords :
    LET ids == UserByUsername(username)
        body == [username |-> username, password |-> password]
        refusal(u) ==
          IF ~isAdminRole(users[u].role_id) /\ ~isOnboard(users[u].status)
            THEN Response(403, "User is not onboard. Login disabled.")
          ELSE IF hashPassword(password) # users[u].password_hash
            THEN Response(401, "Invalid credentials")
          ELSE Response(0, "")
    IN  /\ pc[p] = "idle"
        /\ IF ids = {}
             THEN /\ last' = Last("login", Anonymous, {}, body,
                                  Response(401, "Invalid credentials"))
                  /\ UNCHANGED <<pc, loc>>
             ELSE \E u \in ids :
                    IF refusal(u).code # 0
                      THEN /\ last' = Last("login", Anonymous, {}, body, refusal(u))
                           /\ UNCHANGED <<pc, loc>>
                      ELSE /\ pc' = [pc EXCEPT ![p] = "insertSession"]
                           /\ loc' = [loc EXCEPT ![p] = Job("login", Anonymous, u, body)]
                           /\ UNCHANGED last
        /\ UNCHANGED <<users, nextUserId, sessions, env, txn, resources>>

\* login from its INSERT INTO refresh_sessions to its response
loginInsert(p) ==
  /\ pc[p] = "insertSession"
  /\ Len(sessions) < MaxSessions
  /\ sessions' = Append(sessions, Session(loc[p].user_id))
  /\ last' = Last("login", Anonymous, {loc[p].user_id}, loc[p].body,
                  [Response(200, "Login successful") EXCEPT !.rows = {loc[p].user_id}])
  /\ pc' = [pc EXCEPT ![p] = "idle"]
  /\ loc' = [loc EXCEPT ![p] = <<>>]
  /\ UNCHANGED <<users, nextUserId, env, txn, resources>>

\* resetPassword up to its UPDATE: SELECT the account by username, the two token tests
resetPasswordSelect(p) ==
  \E username \in Usernames, reset_token \in 1..MaxResetTokens, new_password \in env.passwords :
    LET ids == UserByUsername(username)
        body == ResetBody(username, reset_token, new_password)
    IN  /\ pc[p] = "idle"
        /\ IF ids = {}
             THEN /\ last' = Last("resetPassword", Anonymous, {}, body,
                                  Response(400, "Invalid reset token"))
                  /\ UNCHANGED <<pc, loc>>
             ELSE \E u \in ids :
                    IF resetTokenRefusal(users[u], reset_token) # NULL
                      THEN /\ last' = Last("resetPassword", Anonymous, {u}, body,
                                           Response(400, resetTokenRefusal(users[u], reset_token)))
                           /\ UNCHANGED <<pc, loc>>
                      ELSE /\ pc' = [pc EXCEPT ![p] = "updatePassword"]
                           /\ loc' = [loc EXCEPT ![p] = Job("resetPassword", Anonymous, u, body)]
                           /\ UNCHANGED last
        /\ UNCHANGED <<users, nextUserId, sessions, env, txn, resources>>

\* adminSetPassword up to its UPDATE: the role gate and ensureUserScopeForAdmin
adminSetPasswordScope(p) ==
  \E caller \in env.callers, id \in UserIds, new_password \in env.passwords :
    LET body == [new_password |-> new_password]
        refusal == IF ~allowRoles({1, 2, 3}, caller) \/ ~canAdmin(caller.role_id)
                     THEN Response(403, "Forbidden")
                   ELSE IF ~ensureUserScopeForAdmin(caller, id)
                     THEN Response(403, "Forbidden (scope)")
                   ELSE Response(0, "")
    IN  /\ pc[p] = "idle"
        /\ IF refusal.code # 0
             THEN /\ last' = Last("adminSetPassword", caller, {id}, body, refusal)
                  /\ UNCHANGED <<pc, loc>>
             ELSE /\ pc' = [pc EXCEPT ![p] = "updatePassword"]
                  /\ loc' = [loc EXCEPT ![p] = Job("adminSetPassword", caller, id, body)]
                  /\ UNCHANGED last
        /\ UNCHANGED <<users, nextUserId, sessions, env, txn, resources>>

\* UPDATE users SET password_hash = $1, password_enc = $2 ... WHERE user_id = $3 of
\* resetPassword (which also clears the token columns) and of adminSetPassword (which answers
\* 404 when no row was updated)
passwordUpdate(p) ==
  LET job == loc[p]
      u == job.user_id
      new == job.body.new_password
  IN  /\ pc[p] = "updatePassword"
      /\ IF u \in DOMAIN users
           THEN /\ users' = [users EXCEPT ![u] =
                               [@ EXCEPT !.password_hash = hashPassword(new),
                                         !.password_enc = encryptPassword(new),
                                         !.reset_token_hash =
                                            IF job.op = "resetPassword" THEN NoText ELSE @,
                                         !.reset_token_expires_at =
                                            IF job.op = "resetPassword" THEN NULL ELSE @]]
                /\ pc' = [pc EXCEPT ![p] = "revokeSessions"]
                /\ UNCHANGED <<last, loc>>
           ELSE /\ last' = Last(job.op, job.caller, {u}, job.body,
                                Response(404, "User not found"))
                /\ pc' = [pc EXCEPT ![p] = "idle"]
                /\ loc' = [loc EXCEPT ![p] = <<>>]
                /\ UNCHANGED users
      /\ UNCHANGED <<nextUserId, sessions, env, txn, resources>>

\* UPDATE refresh_sessions SET revoked_at = NOW() WHERE user_id = $1 AND revoked_at IS NULL,
\* then the 200 of resetPassword or adminSetPassword
passwordRevoke(p) ==
  LET job == loc[p]
  IN  /\ pc[p] = "revokeSessions"
      /\ sessions' = RevokeSessionsOf(sessions, job.user_id)
      /\ last' = Last(job.op, job.caller, {job.user_id}, job.body,
                      Response(200, IF job.op = "resetPassword"
                                      THEN "Password reset successful"
                                      ELSE "Password updated"))
      /\ pc' = [pc EXCEPT ![p] = "idle"]
      /\ loc' = [loc EXCEPT ![p] = <<>>]
      /\ UNCHANGED <<users, nextUserId, env, txn, resources>>

\* two requests in flight on one onboard Crew account that signs in with "p1"
InitRace ==
  /\ users = (1 :> Row("s1", ROLE_CREW, "A", 1, Onboard, <<"s1", 1>>,
                       hashPassword("p1"), encryptPassword("p1")))
  /\ nextUserId = 2
  /\ sessions = <<>>
  /\ last = Last("start", Anonymous, {}, <<>>, Response(0, ""))
  /\ pc = [p \in Procs |-> "idle"]
  /\ loc = [p \in Procs |-> <<>>]
  /\ txn = [c \in Clients |-> NoTxn]
  /\ NoResources
  /\ env = ResetEnv

NextRace ==
  \/ forgotPassword
  \/ \E p \in Procs :
       \/ loginSelect(p)
       \/ loginInsert(p)
       \/ resetPasswordSelect(p)
       \/ adminSetPasswordScope(p)
       \/ passwordUpdate(p)
       \/ passwordRevoke(p)

SpecRace == InitRace /\ [][NextRace]_vars

\* C23: once a resetPassword or adminSetPassword for an account has answered, every live
\* session of the account comes from a login with the new password. A login that hands out
\* a refresh token while no password-setting request is between its UPDATE and its
\* revocation therefore presented the password the account holds at that moment.
C23_Step ==
  \A p \in Procs :
    /\ pc[p] = "insertSession"
    /\ pc'[p] = "idle"
    /\ \A q \in Procs : pc'[q] # "revokeSessions"
    => \A u \in last'.target :
         users'[u].password_hash = hashPassword(last'.req.password)

C23_OldSessionsRevoked == [][C23_Step]_vars

-----------------------------------------------------------------------------
(* usersController: a seafarer_id over the life and removal of its account *)

\* the lifecycle of the accounts of one seafarer
ReuseEnv == [LifecycleEnv EXCEPT !.seafarers = {"s1"}]

InitReuse == InitTables /\ env = ReuseEnv

NextReuse ==
  \/ createUser
  \/ signup
  \/ updateUser
  \/ deleteUser

SpecReuse == InitReuse /\ [][NextReuse]_vars

\* C24: a seafarer_id that an account was created with is never given to a new account,
\* also after deleteUser removed the account. When the preceding request deleted an
\* account and the remaining accounts hold every seafarer id in use but S, the deleted
\* account held S (seafarer_id is unique), so a create with S is refused.
C24_Step ==
  /\ last.op = "deleteUser"
  /\ last.resp.code = 200
  /\ last'.op \in {"createUser", "signup"}
  /\ {users[u].seafarer_id : u \in DOMAIN users} = env.seafarers \ {last'.req.seafarer_id}
  => last'.resp.code \notin {200, 201}

C24_SeafarerIdNeverReused == [][C24_Step]_vars

-----------------------------------------------------------------------------
(* Reading a stored password back: adminViewPassword, getAllUsers, getUserById *)

\* the service is restarted with another PASSWORD_ENC_KEY: the tokens stored so far no
\* longer pass the authentication tag check
encKeyReplaced ==
  /\ \E u \in DOMAIN users : users[u].password_enc # NoText /\ users[u].password_enc[1] = "gcm"
  /\ users' = [u \in DOMAIN users |->
                 IF users[u].password_enc = NoText THEN users[u]
                 ELSE [users[u] EXCEPT !.password_enc = Undecryptable(@)]]
  /\ last' = Last("encKeyReplaced", Anonymous, {}, <<>>, Response(0, ""))
  /\ UNCHANGED <<nextUserId, sessions, env, pc, loc, txn, resources>>

\* accounts with generated passwords read back by a SuperAdmin
RecoverEnv ==
  Env({SuperAdmin}, {<<"A", 1>>}, {<<NULL, NoShip>>}, {0},
      {Onboard, Offboard}, {NullStatus}, {"p1", "p2"}, {1})

InitRecover == InitTables /\ env = RecoverEnv

NextRecover ==
  \/ createUser
  \/ encKeyReplaced
  \/ adminViewPassword
  \/ getAllUsers
  \/ getUserById

SpecRecover == InitRecover /\ [][NextRecover]_vars

\* C26: a read of stored passwords never answers with an error because a token does not
\* decrypt: adminViewPassword, getAllUsers and getUserById answer 200 for an existing
\* account in scope, and they report no password for an account whose token fails.
C26_Step ==
  last'.op \in {"adminViewPassword", "getAllUsers", "getUserById"}
    => /\ last'.resp.code # 500
       /\ \A id \in last'.target \cap DOMAIN users : last'.resp.code = 200
       /\ \A id \in last'.resp.rows :
            decryptPasswordThrows(users[id].password_enc)
              => \A pl \in last'.resp.plain : pl[1] # id

C26_DecryptFailureIsNull == [][C26_Step]_vars

-----------------------------------------------------------------------------
(* usersController: createUser and updateUser, statement by statement.  Neither opens a  *)
(* transaction: every statement is committed when it returns, and the unique constraints *)
(* are tested by the INSERT or UPDATE itself.                                           *)

\* createUser or updateUser up to its first await in the try block: the role gate, and for
\* updateUser the SELECT of the current row and the decision to generate
credentialsStart(p) ==
  /\ pc[p] = "idle"
  /\ \E caller \in env.callers :
       \/ \E sid \in env.seafarers, st \in env.createStatuses, t \in env.tenancies :
            LET body == CreateBody(sid, st, t[1], t[2], 0)
            IN  /\ loc' = [loc EXCEPT ![p] =
                             [op |-> "createUser", caller |-> caller, id |-> NoUser,
                              body |-> body, sid |-> sid, tries |-> 0, uname |-> NoText,
                              resp |-> Response(0, "")]]
                /\ pc' = [pc EXCEPT ![p] = IF isOnboard(st) THEN "username" ELSE "write"]
       \/ \E id \in DOMAIN users, st \in env.updateStatuses :
            LET body == UpdateBody(NULL, st, NULL, NoShip)
            IN  /\ loc' = [loc EXCEPT ![p] =
                             [op |-> "updateUser", caller |-> caller, id |-> id,
                              body |-> body, sid |-> users[id].seafarer_id, tries |-> 0,
                              uname |-> NoText, resp |-> Response(0, "")]]
                /\ pc' = [pc EXCEPT ![p] = IF updateUserGenerates(users[id], body)
                                             THEN "username" ELSE "write"]
  /\ UNCHANGED <<users, nextUserId, sessions, env, last, txn, resources>>

\* a search that gives up after MAX_USERNAME_TRIES candidates and lets the request go on
\* without a username
usernameCheckGoesOn(p) ==
  /\ pc[p] = "username"
  /\ \E candidate \in generateUsername(loc[p].sid) :
       IF ~UsernameTaken(users, candidate)
         THEN /\ loc' = [loc EXCEPT ![p].uname = candidate]
              /\ pc' = [pc EXCEPT ![p] = "write"]
       ELSE IF loc[p].tries + 1 < MAX_USERNAME_TRIES
         THEN /\ loc' = [loc EXCEPT ![p].tries = @ + 1]
              /\ UNCHANGED pc
       ELSE /\ pc' = [pc EXCEPT ![p] = "write"]
            /\ UNCHANGED loc
  /\ UNCHANGED <<users, nextUserId, sessions, env, last, txn, resources>>

\* one pass of the loop of createUniqueUsername: a candidate and its
\* SELECT 1 FROM users WHERE username = $1
usernameCheck(p) ==
  /\ pc[p] = "username"
  /\ \E candidate \in generateUsername(loc[p].sid) :
       IF ~UsernameTaken(users, candidate)
         THEN /\ loc' = [loc EXCEPT ![p].uname = candidate]
              /\ pc' = [pc EXCEPT ![p] = "write"]
       ELSE IF loc[p].tries + 1 < MAX_USERNAME_TRIES
         THEN /\ loc' = [loc EXCEPT ![p].tries = @ + 1]
              /\ UNCHANGED pc
       ELSE /\ loc' = [loc EXCEPT ![p].resp =
                         Response(500, IF loc[p].op = "createUser"
                                         THEN "Failed to create user"
                                         ELSE "Failed to update user")]
            /\ pc' = [pc EXCEPT ![p] = "done"]
  /\ UNCHANGED <<users, nextUserId, sessions, env, last, txn, resources>>

\* the INSERT of createUser or the UPDATE of updateUser, and the response
credentialsWrite(p) ==
  /\ pc[p] = "write"
  /\ \E plain \in (IF loc[p].uname # NoText THEN env.passwords ELSE {NULL}) :
       LET o == IF loc[p].op = "createUser"
                  THEN createUserInsert(loc[p].caller, loc[p].body, loc[p].uname, plain)
                  ELSE updateUserWrite(loc[p].id, loc[p].body, loc[p].uname, plain)
       IN  /\ users' = o.users
           /\ nextUserId' = o.nextUserId
           /\ loc' = [loc EXCEPT ![p].resp = o.resp]
  /\ pc' = [pc EXCEPT ![p] = "done"]
  /\ UNCHANGED <<sessions, env, last, txn, resources>>

\* seafarer ids "s1" and "S-1" have the same username base; two suffixes
NamesEnv ==
  [Env({SuperAdmin}, {<<"A", 1>>}, {<<NULL, NoShip>>}, {0},
       {Onboard}, {Onboard}, {"p1"}, {1, 2}) EXCEPT !.seafarers = {"s1", "S-1"}]

\* account 1 of seafarer "S-1" was created offboard, without credentials
InitNames ==
  /\ users = (1 :> Row("S-1", ROLE_CREW, "A", 1, Offboard, NoText, NoText, NoText))
  /\ nextUserId = 2
  /\ sessions = <<>>
  /\ last = Last("start", Anonymous, {}, <<>>, Response(0, ""))
  /\ pc = [p \in Procs |-> "idle"]
  /\ loc = [p \in Procs |-> <<>>]
  /\ txn = [c \in Clients |-> NoTxn]
  /\ NoResources
  /\ env = NamesEnv

NextNames ==
  \E p \in Procs :
    \/ credentialsStart(p)
    \/ usernameCheck(p)
    \/ credentialsWrite(p)

SpecNames == InitNames /\ [][NextNames]_vars

\* C25: no two accounts hold the same non-null username, whatever the interleaving of two
\* credential generations; a request whose write would store a username that another
\* account took after the request's check fails as a duplicate and stores nothing; and two
\* requests that both succeed with generated usernames for different accounts generated
\* different ones.
C25_Step ==
  /\ \A u, v \in DOMAIN users' :
       u # v /\ users'[u].username # NoText => users'[u].username # users'[v].username
  /\ \A p \in Procs :
       /\ pc[p] = "write"
       /\ pc'[p] = "done"
       /\ loc[p].uname # NoText
       /\ \E u \in DOMAIN users \ {loc[p].id} : users[u].username = loc[p].uname
       => /\ loc'[p].resp = Response(409, "Duplicate seafarer_id or username")
          /\ users' = users

-----------------------------------------------------------------------------
(* usersController: credentials removed at offboarding and generated again *)

\* accounts that sign in, are offboarded with or without their credentials, and return
ClearEnv ==
  Env({SuperAdmin}, {<<"A", 1>>}, {<<NULL, NoShip>>}, {0},
      {Onboard}, {Onboard, Offboard}, {"p1", "p2"}, {1})

InitClear == InitTables /\ env = ClearEnv

NextClear ==
  \/ createUser
  \/ login
  \/ updateUser
  \/ bulkUpdateUserStatus

SpecClear == InitClear /\ [][NextClear]_vars

\* C27: a bulkUpdateUserStatus to Offboard with remove_credentials that answers 200 leaves
\* username, password_hash and password_enc of every targeted account null; with a status
\* that is Onboard it leaves every stored username, password_hash and password_enc in
\* place, whatever the flag; and an updateUser or bulkUpdateUserStatus to Onboard that
\* answers 200 for an account without username, password_hash and password_enc returns a
\* {username, password} pair for it and stores that username with the hash and the
\* encryption of that password.
C27_Step ==
  /\ last'.op = "bulkUpdateUserStatus" /\ last'.resp.code = 200
       => \A id \in last'.resp.rows :
            /\ isTargetOffboard(last'.req) /\ last'.req.remove_credentials
                 => NoBundle(users'[id])
            /\ isTargetOnboard(last'.req)
                 => /\ users[id].username # NoText => users'[id].username = users[id].username
                    /\ users[id].password_hash # NoText
                         => users'[id].password_hash = users[id].password_hash
                    /\ users[id].password_enc # NoText
                         => users'[id].password_enc = users[id].password_enc
  /\ last'.op \in {"updateUser", "bulkUpdateUserStatus"} /\ last'.resp.code = 200
       => \A id \in (IF last'.op = "updateUser" THEN last'.target ELSE last'.resp.rows) :
            isOnboard(Trim(users'[id].status)) /\ NoBundle(users[id])
              => \E c \in last'.resp.credentials :
                   /\ c.user_id = id
                   /\ users'[id].username = c.username
                   /\ users'[id].password_hash = hashPassword(c.password)
                   /\ users'[id].password_enc = encryptPassword(c.password)

C27_RemoveCredentials == [][C27_Step]_vars

\* an account that had signed in, and so held credentials, lost them at an offboarding
\* with remove_credentials (nothing else sets them to null) and is handed a new pair by the
\* transition to Onboard that has just answered
C27_Witness ==
  /\ last.op \in {"updateUser", "bulkUpdateUserStatus"}
  /\ last.resp.code = 200
  /\ \E c \in last.resp.credentials :
       /\ FullBundle(users[c.user_id])
       /\ \E t \in DOMAIN sessions : sessions[t].user_id = c.user_id

-----------------------------------------------------------------------------
(* usersController: a bulkUpdateUserStatus that fails on a later row *)

\* two accounts without credentials whose seafarer ids have the same username base: the
\* username search for the second can meet the username just given to the first
RollbackEnv == [ConcEnv EXCEPT !.seafarers = {"s1", "S-1"}]

BeforeRequest ==
  [u \in UserIds |->
     Row(IF u = 1 THEN "s1" ELSE "S-1", ROLE_CREW, "A", 1, Offboard, NoText, NoText, NoText)]

InitRollback ==
  /\ users = BeforeRequest
  /\ nextUserId = MaxUsers + 1
  /\ sessions = <<>>
  /\ last = Last("start", Anonymous, {}, <<>>, Response(0, ""))
  /\ pc = [p \in Procs |-> "idle"]
  /\ loc = [p \in Procs |-> <<>>]
  /\ txn = [c \in Clients |-> NoTxn]
  /\ NoResources
  /\ env = RollbackEnv

SpecRollback == InitRollback /\ [][NextConc]_vars

\* C28: when a bulkUpdateUserStatus has answered with a failure and no other request has
\* started, every account is as it was before the request.
C28_FailedBulkChangesNothing ==
  \A p \in Procs :
    /\ pc[p] = "done"
    /\ loc[p].resp.code = 500
    /\ \A q \in Procs \ {p} : pc[q] = "idle"
    => users = BeforeRequest

\* C29: createUniqueUsername checks at most MAX_USERNAME_TRIES candidates. A pass whose
\* candidate no account holds returns that candidate; a pass whose candidate is held counts
\* as a try, and the fifth such pass ends the request with a 500 and nothing stored. No
\* account is onboard with a null username: no createUser or updateUser that had to
\* generate credentials stored a row without one.
C29_Step ==
  /\ \A u \in DOMAIN users' : isOnboard(users'[u].status) => users'[u].username # NoText
  /\ \A p \in Procs :
       /\ pc'[p] = "username" => loc'[p].tries < MAX_USERNAME_TRIES
       /\ pc[p] = "username" /\ pc'[p] = "username" /\ loc'[p] # loc[p]
            => /\ loc'[p].tries = loc[p].tries + 1
               /\ \E c \in generateUsername(loc[p].sid) : UsernameTaken(users, c)
       /\ pc[p] = "username" /\ pc'[p] = "write"
            => /\ loc'[p].uname \in generateUsername(loc[p].sid)
               /\ ~UsernameTaken(users, loc'[p].uname)
       /\ pc[p] = "username" /\ pc'[p] = "done"
            => /\ loc[p].tries = MAX_USERNAME_TRIES - 1
               /\ \E c \in generateUsername(loc[p].sid) : UsernameTaken(users, c)
               /\ loc'[p].resp.code = 500
               /\ users' = users
       /\ pc[p] = "write" /\ pc'[p] = "done" /\ loc'[p].resp.code \in {200, 201}
            => \A u \in DOMAIN users' :
                 users'[u].seafarer_id = loc[p].sid /\ isOnboard(users'[u].status)
                   => users'[u].username # NoText

-----------------------------------------------------------------------------
(* Update and delete of a missing or foreign row *)

\* the table an update or delete handler works on
TargetTable(op) ==
  CASE op \in {"updateShip", "deleteShip"} -> ships
    [] op \in {"updateCertificate", "deleteCertificate"} -> certificates
    [] op \in {"updateAssessment", "deleteAssessment"} -> assessments
    [] op = "deleteCompany" -> companies

\* the roles the handler lets write at all
WriterRoles(op) ==
  CASE op \in {"updateShip", "deleteShip"} -> {ROLE_SUPERADMIN, ROLE_ADMIN}
    [] op = "deleteCompany" -> {ROLE_SUPERADMIN}
    [] OTHER -> {ROLE_SUPERADMIN, ROLE_ADMIN, ROLE_SUBADMIN}

\* a row of another company than the caller's, for an Admin or a SubAdmin
OutsideScope(caller, row) ==
  caller.role_id \in {ROLE_ADMIN, ROLE_SUBADMIN} /\ row.company_id # caller.company_id

\* C30: an update or delete by a caller whose role may write answers 404 when the target
\* id is not in the table, whatever the caller's scope, and 403 when the target exists
\* outside the caller's company; in both cases no table changes.
C30_Step ==
  /\ last'.op \in {"updateShip", "deleteShip", "updateCertificate", "deleteCertificate",
                   "updateAssessment", "deleteAssessment", "deleteCompany"}
  /\ last'.caller.role_id \in WriterRoles(last'.op)
  => \A id \in last'.target :
       /\ id \notin DOMAIN TargetTable(last'.op)
            => last'.resp.code = 404 /\ resources' = resources /\ users' = users
       /\ id \in DOMAIN TargetTable(last'.op)
            => (last'.op # "deleteCompany" /\ OutsideScope(last'.caller, TargetTable(last'.op)[id])
                  => last'.resp.code = 403 /\ resources' = resources /\ users' = users)

C30_NotFoundAndForbidden == [][C30_Step]_vars

-----------------------------------------------------------------------------
(* Duplicate seafarer ids and usernames in single-record writes.  Accounts    *)
(* are created offboard, so no username is generated and a duplicate comes    *)
(* from the request alone: signup's own username, a seafarer_id in use, a     *)
(* rename onto another account's seafarer_id, or an account that already      *)
(* holds the COMPANY:<id> seafarer_id of the company being created.           *)

ConflictEnv ==
  [Env({SuperAdmin}, {<<"A", 1>>}, {<<NULL, NoShip>>}, {0},
       {Offboard}, {NullStatus}, {"p1"}, {1})
     EXCEPT !.seafarers = {"s1", "S-1", "COMPANY:A"}, !.renames = {NULL, "s1"}]

InitConflict == InitTables /\ env = ConflictEnv

NextConflict ==
  \/ createUser
  \/ signup
  \/ updateUser
  \/ createCompany

SpecConflict == InitConflict /\ [][NextConflict]_vars

\* the row the request asks to store carries a seafarer_id or a username that another
\* account holds
RequestDuplicates(l) ==
  CASE l.op = "createUser" ->
         \E j \in DOMAIN users : users[j].seafarer_id = l.req.seafarer_id
    [] l.op = "signup" ->
         \E j \in DOMAIN users : \/ users[j].seafarer_id = l.req.seafarer_id
                                  \/ users[j].username = l.req.username
    [] l.op = "updateUser" ->
         /\ l.target \subseteq DOMAIN users
         /\ l.req.seafarer_id # NULL
         /\ \E j \in DOMAIN users \ l.target : users[j].seafarer_id = l.req.seafarer_id
    [] l.op = "createCompany" ->
         /\ l.req.company_name # NULL /\ l.req.username # NULL /\ l.req.password # NULL
         /\ \A c \in DOMAIN companies : companies[c].username # <<l.req.username, 0>>
         /\ \E j \in DOMAIN users :
              users[j].seafarer_id = CompanySeafarer(CompanyId(serials.companies))
    [] OTHER -> FALSE

\* C31: a signup, createUser, updateUser or createCompany whose account row would
\* duplicate another account's seafarer_id or username is answered 409 and leaves the
\* users and company tables as they were.
C31_Step ==
  RequestDuplicates(last') =>
    /\ last'.resp.code = 409
    /\ users' = users
    /\ companies' = companies

C31_DuplicateIsConflict == [][C31_Step]_vars

-----------------------------------------------------------------------------
(* createCompany, statement by statement.  Its BEGIN, its SELECTs, its two    *)
(* INSERTs and its COMMIT or ROLLBACK are db.query calls, each run on          *)
(* whichever connection the pool hands out.                                   *)

\* the company table as a statement on connection c sees it
CompanyView(c) == txn[c].companies @@ companies

\* the request of a SuperAdmin arrives and passes the validation of its body
createCompanyStart(p) ==
  /\ pc[p] = "idle"
  /\ \E caller \in env.callers, password \in env.passwords :
        loc' = [loc EXCEPT ![p] =
                  [caller |-> caller, body |-> CompanyBody("Acme", "acme", password),
                   uname |-> NoText, company_id |-> NULL, resp |-> Response(0, "")]]
  /\ pc' = [pc EXCEPT ![p] = "exists"]
  /\ UNCHANGED <<users, nextUserId, sessions, env, last, txn, resources>>

\* SELECT 1 FROM company WHERE username = $1 LIMIT 1
createCompanyExists(p, c) ==
  /\ pc[p] = "exists"
  /\ IF \E k \in DOMAIN CompanyView(c) : CompanyView(c)[k].username = <<loc[p].body.username, 0>>
       THEN /\ loc' = [loc EXCEPT ![p].resp = Response(409, "Company username already exists")]
            /\ pc' = [pc EXCEPT ![p] = "done"]
       ELSE /\ pc' = [pc EXCEPT ![p] = "begin"]
            /\ UNCHANGED loc
  /\ UNCHANGED <<users, nextUserId, sessions, env, last, txn, resources>>

\* await db.query("BEGIN")
createCompanyBegin(p, c) ==
  /\ pc[p] = "begin"
  /\ txn' = [txn EXCEPT ![c].active = TRUE]
  /\ pc' = [pc EXCEPT ![p] = "username"]
  /\ UNCHANGED <<users, nextUserId, sessions, env, last, loc, resources>>

\* makeUniqueUsername(username): the cleaned base if no account holds it, else a random
\* candidate no account holds; it throws when every try is held
createCompanyUsername(p, c) ==
  LET base == loc[p].body.username
      free == {k \in env.suffixes : ~UsernameTaken(View(c), <<base, k>>)}
  IN  /\ pc[p] = "username"
      /\ IF ~UsernameTaken(View(c), <<base, 0>>)
           THEN /\ loc' = [loc EXCEPT ![p].uname = <<base, 0>>]
                /\ pc' = [pc EXCEPT ![p] = "company"]
         ELSE IF free # {}
           THEN /\ \E k \in free : loc' = [loc EXCEPT ![p].uname = <<base, k>>]
                /\ pc' = [pc EXCEPT ![p] = "company"]
         ELSE /\ loc' = [loc EXCEPT ![p].resp = Response(500, "Failed to create company")]
              /\ pc' = [pc EXCEPT ![p] = "rollback"]
      /\ UNCHANGED <<users, nextUserId, sessions, env, last, txn, resources>>

\* INSERT INTO company (...) VALUES (...) RETURNING *
createCompanyInsert(p, c) ==
  LET id == CompanyId(serials.companies)
      row == Company(loc[p].body.company_name, loc[p].uname, hashPassword(loc[p].body.password))
  IN  /\ pc[p] = "company"
      /\ serials.companies <= MaxCompanies
      /\ IF txn[c].active
           THEN /\ txn' = [txn EXCEPT ![c].companies = (id :> row) @@ @]
                /\ UNCHANGED companies
           ELSE /\ companies' = (id :> row) @@ companies
                /\ UNCHANGED txn
      /\ serials' = [serials EXCEPT !.companies = @ + 1]
      /\ loc' = [loc EXCEPT ![p].company_id = id]
      /\ pc' = [pc EXCEPT ![p] = "admin"]
      /\ UNCHANGED <<users, nextUserId, sessions, env, last, ships, certificates,
                     assessments, incidents>>

\* INSERT INTO users (...) VALUES ($1, ..., $6, NULL, 2, 'Onboard', ...)
createCompanyAdmin(p, c) ==
  LET id == loc[p].company_id
      admin == Row(CompanySeafarer(id), ROLE_ADMIN, id, NoShip, Onboard, loc[p].uname,
                   hashPassword(loc[p].body.password), encryptPassword(loc[p].body.password))
  IN  /\ pc[p] = "admin"
      /\ nextUserId' = nextUserId + 1
      /\ IF UniqueViolation(View(c), nextUserId, admin)
           THEN /\ loc' = [loc EXCEPT ![p].resp = Response(500, "Failed to create company")]
                /\ pc' = [pc EXCEPT ![p] = "rollback"]
                /\ UNCHANGED <<users, txn>>
           ELSE /\ IF txn[c].active
                     THEN /\ txn' = [txn EXCEPT ![c].writes = (nextUserId :> admin) @@ @]
                          /\ UNCHANGED users
                     ELSE /\ users' = (nextUserId :> admin) @@ users
                          /\ UNCHANGED txn
                /\ pc' = [pc EXCEPT ![p] = "commit"]
                /\ UNCHANGED loc
      /\ UNCHANGED <<sessions, env, last, resources>>

\* await db.query("COMMIT") and the 201 response
createCompanyCommit(p, c) ==
  /\ pc[p] = "commit"
  /\ users' = View(c)
  /\ companies' = CompanyView(c)
  /\ txn' = [txn EXCEPT ![c] = NoTxn]
  /\ loc' = [loc EXCEPT ![p].resp = [Response(201, "") EXCEPT !.rows = {loc[p].company_id}]]
  /\ pc' = [pc EXCEPT ![p] = "done"]
  /\ UNCHANGED <<nextUserId, sessions, env, last, ships, certificates, assessments,
                 incidents, serials>>

\* await db.query("ROLLBACK") and the 500 response
createCompanyRollback(p, c) ==
  /\ pc[p] = "rollback"
  /\ txn' = [txn EXCEPT ![c] = NoTxn]
  /\ pc' = [pc EXCEPT ![p] = "done"]
  /\ UNCHANGED <<users, nextUserId, sessions, env, last, loc, resources>>

CompanyTxnEnv ==
  Env({SuperAdmin}, {<<"A", 1>>}, {<<NULL, NoShip>>}, {0},
      {Offboard}, {NullStatus}, {"p1", "p2"}, {1})

\* one offboard crew account, whose seafarer_id may be the one a company admin gets
\* and whose username, if it has one, may be the one the company asks for
InitCompanyTxn ==
  /\ \E sid \in {"s1", "COMPANY:A"}, held \in BOOLEAN :
        users = (1 :> IF held
                        THEN Row(sid, ROLE_CREW, NULL, NoShip, Offboard, <<"acme", 0>>,
                                 hashPassword("p1"), encryptPassword("p1"))
                        ELSE Row(sid, ROLE_CREW, NULL, NoShip, Offboard, NoText, NoText,
                                 NoText))
  /\ nextUserId = 2
  /\ sessions = <<>>
  /\ last = Last("start", Anonymous, {}, <<>>, Response(0, ""))
  /\ pc = [p \in Procs |-> "idle"]
  /\ loc = [p \in Procs |-> <<>>]
  /\ txn = [c \in Clients |-> NoTxn]
  /\ NoResources
  /\ env = CompanyTxnEnv

NextCompanyTxn ==
  \E p \in Procs :
    \/ createCompanyStart(p)
    \/ \E c \in Clients :
         \/ createCompanyExists(p, c)
         \/ createCompanyBegin(p, c)
         \/ createCompanyUsername(p, c)
         \/ createCompanyInsert(p, c)
         \/ createCompanyAdmin(p, c)
         \/ createCompanyCommit(p, c)
         \/ createCompanyRollback(p, c)

SpecCompanyTxn == InitCompanyTxn /\ [][NextCompanyTxn]_vars

\* the admin accounts stored for company id with the company row's username and hash
AdminAccounts(id) ==
  {u \in DOMAIN users :
     /\ users[u].company_id = id
     /\ users[u].role_id = ROLE_ADMIN
     /\ users[u].ship_id = NoShip
     /\ users[u].status = Onboard
     /\ id \in DOMAIN companies
          => /\ users[u].username = companies[id].username
             /\ users[u].password_hash = companies[id].password_hash}

\* C32: once a createCompany request has answered, the company row it inserted is
\* stored exactly if its admin account is stored, the account being an onboard Admin
\* without a ship that carries the company row's username and password hash; a
\* request answered with a failure has left no company row.
C32_CompanyAndAdminOrNeither ==
  \A p \in Procs :
    pc[p] = "done" /\ loc[p].company_id # NULL =>
      /\ loc[p].company_id \in DOMAIN companies <=> AdminAccounts(loc[p].company_id) # {}
      /\ loc[p].resp.code # 201 => loc[p].company_id \notin DOMAIN companies

-----------------------------------------------------------------------------
(* Soft deletion of incidents *)

\* C33: a successful deleteIncident keeps the row and sets its is_deleted; no step
\* removes an incident row or clears is_deleted; on a deleted incident getIncidentById,
\* updateIncident and deleteIncident answer 404 and change nothing, and getAllIncidents
\* lists no deleted incident, whatever the caller's role.
C33_Step ==
  /\ \A i \in DOMAIN incidents :
        /\ i \in DOMAIN incidents'
        /\ incidents[i].is_deleted => incidents'[i].is_deleted
  /\ last'.op = "deleteIncident" /\ last'.resp.code = 200
       => \A i \in last'.target :
            /\ i \in DOMAIN incidents /\ ~incidents[i].is_deleted
            /\ incidents' = [incidents EXCEPT ![i].is_deleted = TRUE]
  /\ last'.op \in {"getIncidentById", "updateIncident", "deleteIncident"}
       => \A i \in last'.target \cap DOMAIN incidents :
            incidents[i].is_deleted => last'.resp.code = 404 /\ incidents' = incidents
  /\ last'.op = "getAllIncidents"
       => \A i \in last'.resp.rows : ~incidents[i].is_deleted

C33_SoftDeleteIsFinal == [][C33_Step]_vars

\* a deleted incident is still stored and its reporter's company Admin gets 404 for it
C33_Witness ==
  /\ last.op \in {"getIncidentById", "updateIncident"}
  /\ last.caller = AdminA
  /\ last.resp.code = 404
  /\ \E i \in last.target \cap DOMAIN incidents :
        incidents[i].is_deleted /\ incidents[i].company_id = "A"

-----------------------------------------------------------------------------
(* Accounts made without an access token.  POST /auth/signup and              *)
(* POST /auth/login are routed without requireAuth; the body of a signup may  *)
(* carry any role_id.                                                         *)

SignupEnv ==
  Env({SuperAdmin}, {<<"A", 1>>}, {<<NULL, NoShip>>},
      {0, ROLE_SUPERADMIN, ROLE_ADMIN, ROLE_SUBADMIN},
      {Onboard}, {NullStatus}, {"p1"}, {1})

InitSignup == InitTables /\ env = SignupEnv

NextSignup ==
  \/ signup
  \/ createUser
  \/ login

SpecSignup == InitSignup /\ [][NextSignup]_vars

\* C34: every account that a request without an access token adds to the users table
\* has the Crew role.
C34_Step ==
  last'.caller = Anonymous =>
    \A u \in DOMAIN users' \ DOMAIN users : users'[u].role_id = ROLE_CREW

C34_SignupMakesCrewOnly == [][C34_Step]_vars

-----------------------------------------------------------------------------
(* Two requests that onboard the same account.  updateUser reads the current  *)
(* row, decides to generate, and writes with COALESCE($n, column) in a later  *)
(* statement; nothing orders two such requests.                               *)

OnboardRaceEnv ==
  [Env({SuperAdmin}, {<<"A", 1>>}, {<<NULL, NoShip>>}, {0},
       {Onboard}, {Onboard}, {"p1", "p2"}, {1, 2}) EXCEPT !.seafarers = {"s1", "S-1"}]

InitOnboardRace ==
  /\ users = (1 :> Row("S-1", ROLE_CREW, "A", 1, Offboard, NoText, NoText, NoText))
  /\ nextUserId = 2
  /\ sessions = <<>>
  /\ last = Last("start", Anonymous, {}, <<>>, Response(0, ""))
  /\ pc = [p \in Procs |-> "idle"]
  /\ loc = [p \in Procs |-> <<>>]
  /\ txn = [c \in Clients |-> NoTxn]
  /\ NoResources
  /\ env = OnboardRaceEnv

SpecOnboardRace == InitOnboardRace /\ [][NextNames]_vars

\* the {username, password} pairs the request of process p has returned
HandedOut(p) == IF pc[p] = "done" THEN loc[p].resp.credentials ELSE {}

\* C35: every {username, password} pair a createUser or updateUser request has
\* returned is the bundle stored for its account, so that the pair can log in, and no
\* two requests have returned a pair for the same account.
C35_OnePlaintextPerAccount ==
  \A p \in Procs : \A c \in HandedOut(p) :
    /\ c.user_id \in DOMAIN users
    /\ users[c.user_id].username = c.username
    /\ users[c.user_id].password_hash = hashPassword(c.password)
    /\ \A q \in Procs \ {p} : \A d \in HandedOut(q) : d.user_id # c.user_id

-----------------------------------------------------------------------------
(* Bulk status changes by callers whose token lacks a company or a ship.  The *)
(* token copies company_id and ship_id from the caller's users row, and an    *)
(* Admin or SubAdmin row may have them null.                                  *)

AdminNoCompany == Principal(2, ROLE_ADMIN, NULL, NoShip)
SubAdminNoShip == Principal(2, ROLE_SUBADMIN, "A", NoShip)

BulkScopeEnv ==
  Env({SuperAdmin, AdminA, AdminNoCompany, SubAdminNoShip}, {<<"A", 1>>, <<"B", 1>>},
      {<<NULL, NoShip>>}, {0}, {Onboard, Offboard}, {Onboard, Offboard}, {"p1"}, {1, 2})

InitBulkScope == InitTables /\ env = BulkScopeEnv

NextBulkScope ==
  \/ createUser
  \/ bulkUpdateUserStatus

SpecBulkScope == InitBulkScope /\ [][NextBulkScope]_vars

\* C36: a bulkUpdateUserStatus by a caller other than a SuperAdmin leaves every account
\* outside the caller's scope as it was: those of another company for an Admin, those
\* of another company or ship for a SubAdmin.
C36_Step ==
  last'.op = "bulkUpdateUserStatus" /\ last'.caller.role_id # ROLE_SUPERADMIN =>
    \A u \in DOMAIN users :
      ~InScope(last'.caller, u) => u \in DOMAIN users' /\ users'[u] = users[u]

C36_BulkStaysInScope == [][C36_Step]_vars

-----------------------------------------------------------------------------
(* importUsersFromExcel.  A sheet is the sequence of its data rows; of a row  *)
(* the identity column, the status column, whether a disembarkation date is   *)
(* given and whether the rank is one isShipAdminRank recognises matter here.  *)

MaxSheetRows == 2

ImportRow(sid, status, disembarked, senior) ==
  [seafarer_id |-> sid, status |-> status, disembarkation_date |-> disembarked,
   senior |-> senior]

\* if (!disembarkation_date) return "Onboard"; return "Offboard"
computeStatusFromDates(r) == IF ~r.disembarkation_date THEN Onboard ELSE Offboard

\* resolveImportScope(req): the error it returns, "" when the scope is accepted
resolveImportScope(caller, company_id, ship_id) ==
  IF company_id = NULL THEN "company_id is required and must be a valid UUID"
  ELSE IF ship_id = NoShip THEN "ship_id is required and must be a number"
  ELSE IF company_id \notin DOMAIN companies THEN "company_id does not exist"
  ELSE IF ship_id \notin DOMAIN ships THEN "ship_id does not exist"
  ELSE IF ships[ship_id].company_id # company_id THEN "ship_id does not belong to company_id"
  ELSE IF caller.role_id = 2 /\ caller.company_id # company_id
    THEN "Role 2 company scope violation"
  ELSE IF caller.role_id = 3 /\ caller.company_id # company_id
    THEN "Role 3 company scope violation"
  ELSE IF caller.role_id = 3 /\ caller.ship_id # ship_id THEN "Role 3 ship scope violation"
  ELSE ""

\* one pass of the loop over the rows: the table and the serial it leaves, the
\* credentials it created, and whether createUniqueUsername threw
importRow(tbl, serial, company_id, ship_id, r) ==
  LET fromExcel == IF Trim(r.status) # NullStatus THEN r.status ELSE computeStatusFromDates(r)
      role_id_to_insert == IF r.senior THEN 3 ELSE 4
      status == IF role_id_to_insert = 3 THEN Onboard ELSE fromExcel
      existing == {u \in DOMAIN tbl : /\ tbl[u].seafarer_id = r.seafarer_id
                                       /\ tbl[u].company_id = company_id}
      pass(t, n, c) == [users |-> t, nextUserId |-> n, credentials |-> c, thrown |-> FALSE]
      gen == isOnboard(status)
  IN  IF r.seafarer_id = NULL
        THEN {pass(tbl, serial, {})}
      ELSE IF existing # {}
        THEN {pass([tbl EXCEPT ![u].ship_id = ship_id, ![u].status = status,
                               ![u].role_id = role_id_to_insert], serial, {})
              : u \in existing}
      ELSE { LET row == Row(r.seafarer_id, role_id_to_insert, company_id, ship_id, status, n,
                            IF gen THEN hashPassword(p) ELSE NoText,
                            IF gen THEN encryptPassword(p) ELSE NoText)
             IN  IF n = Exhausted
                   THEN [pass(tbl, serial, {}) EXCEPT !.thrown = TRUE]
                 ELSE IF UniqueViolation(tbl, serial, row)
                   THEN pass(tbl, serial + 1, {})
                 ELSE pass(tbl @@ (serial :> row), serial + 1,
                           IF gen THEN {Credential(serial, n, p)} ELSE {})
             : n \in (IF gen THEN createUniqueUsername(tbl, r.seafarer_id) ELSE {NoText}),
               p \in (IF gen THEN env.passwords ELSE {NULL}) }

\* the for loop over the rows of the sheet; the rows are written one by one, outside any
\* transaction
RECURSIVE importLoop(_, _, _, _, _, _)
importLoop(tbl, serial, company_id, ship_id, rows, creds) ==
  IF rows = <<>>
    THEN {[users |-> tbl, nextUserId |-> serial, credentials |-> creds, thrown |-> FALSE]}
    ELSE UNION { IF o.thrown
                   THEN {[o EXCEPT !.credentials = creds]}
                   ELSE importLoop(o.users, o.nextUserId, company_id, ship_id, Tail(rows),
                                   creds \cup o.credentials)
                 : o \in importRow(tbl, serial, company_id, ship_id, Head(rows)) }

\* the rows a sheet can hold: a row without an identity, and for each seafarer a row
\* with a status, a row without one, with or without a disembarkation date, and a row
\* with a status and a senior rank
SheetRows ==
  {ImportRow(NULL, NullStatus, FALSE, FALSE)}
  \cup {ImportRow(sid, st, FALSE, FALSE) :
          sid \in env.seafarers, st \in {OnboardLoose, Offboard}}
  \cup {ImportRow(sid, NullStatus, d, FALSE) : sid \in env.seafarers, d \in BOOLEAN}
  \cup {ImportRow(sid, Offboard, FALSE, TRUE) : sid \in env.seafarers}

Sheets == UNION {[1..n -> SheetRows] : n \in 0..MaxSheetRows}

importUsersFromExcel ==
  \E caller \in env.callers, company_id \in Companies, ship_id \in 1..MaxShips,
     sheet \in Sheets :
    LET req == [company_id |-> company_id, ship_id |-> ship_id, sheet |-> sheet]
        scopeError == resolveImportScope(caller, company_id, ship_id)
        results ==
          IF caller.role_id \notin {1, 2, 3}
            THEN {Unchanged(Response(403, "Forbidden"))}
          ELSE IF scopeError # ""
            THEN {Unchanged(Response(400, scopeError))}
          ELSE IF sheet = <<>>
            THEN {Unchanged(Response(400, "Excel sheet is empty"))}
          ELSE {Outcome(r.users, r.nextUserId, sessions,
                        IF r.thrown
                          THEN Response(500, "Failed to import users")
                          ELSE [Response(201, "Excel import completed") EXCEPT
                                  !.credentials = r.credentials])
                : r \in importLoop(users, nextUserId, company_id, ship_id, sheet, {})}
    IN  \E o \in results :
          Apply("importUsersFromExcel", caller, {}, req, o)

ImportEnv ==
  [Env({SuperAdmin}, {<<"A", 1>>}, {<<NULL, NoShip>>}, {0},
       {Onboard, Offboard}, {Onboard, Offboard}, {"p1"}, {1, 2})
     EXCEPT !.seafarers = {"s1"}]

InitImport == InitTables /\ env = ImportEnv

NextImport ==
  \/ createCompany
  \/ createShip
  \/ createUser
  \/ updateUser
  \/ bulkUpdateUserStatus
  \/ importUsersFromExcel

SpecImport == InitImport /\ [][NextImport]_vars

\* C37: every Crew account whose status is Onboard has a username and a password hash.
C37_OnboardCrewHasCredentials ==
  \A u \in DOMAIN users :
    users[u].role_id = ROLE_CREW /\ isOnboard(users[u].status)
      => users[u].username # NoText /\ users[u].password_hash # NoText

-----------------------------------------------------------------------------
(* What forgotPassword tells about the existence of an account *)

\* what the client sees of a response: the status, the message and the token
Observed(resp) == <<resp.code, resp.error, resp.reset_token # NoToken>>

\* C38: the response of forgotPassword to a request that names a username is the one
\* it gives for a username that matches no account, whether or not the username
\* matches one.
C38_Step ==
  last'.op = "forgotPassword" /\ last'.req.username # NoText =>
    Observed(last'.resp) = Observed(Response(200, "If account exists, reset token generated"))

C38_ExistenceNotRevealed == [][C38_Step]_vars

(***************************************************************************)
(* updateAssessment, statement by statement.  Each request checks a client *)
(* of its own out of the pool (request p holds client p) and runs BEGIN,   *)
(* every statement and COMMIT or ROLLBACK on it, under READ COMMITTED: a   *)
(* statement reads the rows committed when it starts, the UPDATE locks the *)
(* assessment's row until the transaction ends, and the writes show to the *)
(* other clients at COMMIT.  getAssessmentById runs after the COMMIT.      *)
(***************************************************************************)

\* the assessments a statement on client c reads
AssessmentView(c) == txn[c].assessments @@ assessments

\* canWrite, db.connect() and BEGIN
updateAssessmentStart(p) ==
  /\ pc[p] = "idle"
  /\ \E caller \in env.callers, id \in 1..MaxAssessments, body \in AssessmentBodies({NULL}) :
        IF ~canWrite(caller.role_id)
          THEN /\ loc' = [loc EXCEPT ![p] = [caller |-> caller, id |-> id, body |-> body,
                                                resp |-> Response(403, "Forbidden")]]
               /\ pc' = [pc EXCEPT ![p] = "done"]
               /\ UNCHANGED txn
          ELSE /\ loc' = [loc EXCEPT ![p] = [caller |-> caller, id |-> id, body |-> body,
                                                resp |-> Response(0, "")]]
               /\ pc' = [pc EXCEPT ![p] = "check"]
               /\ txn' = [txn EXCEPT ![p].active = TRUE]
  /\ UNCHANGED <<users, nextUserId, sessions, env, last, resources>>

\* SELECT a.assessment_id FROM assessments a WHERE a.assessment_id = $1 AND (scope), and
\* the checks of the body's company_id and ship_id; each refusal runs ROLLBACK
updateAssessmentCheck(p) ==
  LET caller == loc[p].caller
      id == loc[p].id
      body == loc[p].body
      refusal ==
        IF id \notin DOMAIN AssessmentView(p) \/ ~assessScope(caller, AssessmentView(p)[id])
          THEN Response(404, "Assessment not found")
        ELSE IF /\ caller.role_id = ROLE_ADMIN
                /\ body.company_id # NULL /\ body.company_id # caller.company_id
          THEN Response(403, "Forbidden (company scope)")
        ELSE IF /\ caller.role_id = ROLE_SUBADMIN
                /\ \/ body.company_id # NULL /\ body.company_id # caller.company_id
                   \/ body.ship_id # NoShip /\ body.ship_id # caller.ship_id
          THEN Response(403, "Forbidden (ship scope)")
        ELSE Response(0, "")
  IN  /\ pc[p] = "check"
      /\ IF refusal.code # 0
           THEN /\ loc' = [loc EXCEPT ![p].resp = refusal]
                /\ txn' = [txn EXCEPT ![p] = NoTxn]
                /\ pc' = [pc EXCEPT ![p] = "done"]
           ELSE /\ pc' = [pc EXCEPT ![p] = "update"]
                /\ UNCHANGED <<loc, txn>>
      /\ UNCHANGED <<users, nextUserId, sessions, env, last, resources>>

\* UPDATE assessments SET company_id = COALESCE($1, company_id), ... WHERE assessment_id = $7:
\* it waits for the row's lock and writes the row as last committed
updateAssessmentUpdate(p) ==
  LET id == loc[p].id
      body == loc[p].body
  IN  /\ pc[p] = "update"
      /\ LocksFree(p, {id})
      /\ txn' = [txn EXCEPT
                   ![p].locks = @ \cup {id},
                   ![p].assessments =
                      IF id \in DOMAIN assessments
                        THEN id :> [assessments[id] EXCEPT
                                      !.company_id = Coalesce(body.company_id, @, NULL),
                                      !.ship_id = Coalesce(body.ship_id, @, NoShip),
                                      !.title = Coalesce(body.title, @, NULL),
                                      !.status = Coalesce(body.status, @, NULL)]
                        ELSE <<>>]
      /\ pc' = [pc EXCEPT ![p] = "questions"]
      /\ UNCHANGED <<users, nextUserId, sessions, env, last, loc, resources>>

\* if (questions !== undefined) { DELETE the options, DELETE the questions, INSERT the
\* questions and options of the body }; an INSERT that throws leads to the catch block
updateAssessmentQuestions(p) ==
  LET id == loc[p].id
      body == loc[p].body
      tree == insertQuestions(<<>>, body.questions.list)
  IN  /\ pc[p] = "questions"
      /\ IF ~body.questions.given
           THEN /\ pc' = [pc EXCEPT ![p] = "commit"]
                /\ UNCHANGED txn
           ELSE /\ txn' = [txn EXCEPT ![p].assessments =
                             [k \in DOMAIN @ |-> [@[k] EXCEPT !.questions = tree.questions]]]
                /\ pc' = [pc EXCEPT ![p] = IF tree.thrown THEN "rollback" ELSE "commit"]
      /\ UNCHANGED <<users, nextUserId, sessions, env, last, loc, resources>>

\* await client.query('COMMIT')
updateAssessmentCommit(p) ==
  /\ pc[p] = "commit"
  /\ assessments' = AssessmentView(p)
  /\ txn' = [txn EXCEPT ![p] = NoTxn]
  /\ pc' = [pc EXCEPT ![p] = "fetch"]
  /\ UNCHANGED <<users, nextUserId, sessions, env, last, loc, ships, certificates,
                 incidents, companies, serials>>

\* catch (err) { await client.query('ROLLBACK'); res.status(500) }
updateAssessmentRollback(p) ==
  /\ pc[p] = "rollback"
  /\ txn' = [txn EXCEPT ![p] = NoTxn]
  /\ loc' = [loc EXCEPT ![p].resp = Response(500, "Failed to update assessment")]
  /\ pc' = [pc EXCEPT ![p] = "done"]
  /\ UNCHANGED <<users, nextUserId, sessions, env, last, resources>>

\* return getAssessmentById(req, res)
updateAssessmentFetch(p) ==
  /\ pc[p] = "fetch"
  /\ loc' = [loc EXCEPT ![p].resp = assessmentById(loc[p].caller, assessments, loc[p].id)]
  /\ pc' = [pc EXCEPT ![p] = "done"]
  /\ UNCHANGED <<users, nextUserId, sessions, env, last, txn, resources>>

\* a question with one option, one whose second option the database refuses, and one the
\* database refuses
Q1 == Question("q1", <<Option("o1", TRUE)>>, TRUE)
QOptionRefused == Question("q2", <<Option("o1", TRUE), Option("o2", FALSE)>>, TRUE)
QRefused == Question("q3", <<>>, FALSE)

\* a SuperAdmin and the Admin of company A write the assessments of company A; a body may
\* move an assessment to company B, and may carry a question tree
ReplaceEnv ==
  [Env({SuperAdmin, AdminA, CrewA1}, {<<"B", 1>>}, {<<NULL, NoShip>>}, {0}, {Onboard},
       {NullStatus}, {"p1"}, {1})
     EXCEPT !.trees = {NoQuestions, Questions(TRUE, <<>>), Questions(TRUE, <<Q1>>),
                       Questions(TRUE, <<Q1, QOptionRefused>>),
                       Questions(TRUE, <<QRefused>>)}]

\* one assessment of company A with a question, created by the Admin of company A
InitReplace ==
  /\ users = <<>>
  /\ nextUserId = 1
  /\ sessions = <<>>
  /\ last = Last("start", Anonymous, {}, <<>>, Response(0, ""))
  /\ pc = [p \in Procs |-> "idle"]
  /\ loc = [p \in Procs |-> <<>>]
  /\ txn = [c \in Clients |-> NoTxn]
  /\ ships = <<>>
  /\ certificates = <<>>
  /\ incidents = <<>>
  /\ companies = <<>>
  /\ assessments =
       (1 :> [Assessment("A", 1, AdminA.user_id, "t1", "draft") EXCEPT
                !.questions = insertQuestions(<<>>, <<Q1>>).questions])
  /\ serials = [ships |-> 1, certificates |-> 1, assessments |-> 2, incidents |-> 1,
                companies |-> 1, reset_tokens |-> 1]
  /\ env = ReplaceEnv

NextReplace ==
  \E p \in Procs :
    \/ updateAssessmentStart(p)
    \/ updateAssessmentCheck(p)
    \/ updateAssessmentUpdate(p)
    \/ updateAssessmentQuestions(p)
    \/ updateAssessmentCommit(p)
    \/ updateAssessmentRollback(p)
    \/ updateAssessmentFetch(p)

SpecReplace == InitReplace /\ [][NextReplace]_vars

\* the questions and options of a body, as rows
Supplied(list) ==
  [i \in 1..Len(list) |-> storedQuestion(list[i], Len(list[i].options))]

C39_Step ==
  \A p \in Procs :
    LET id == loc[p].id
        body == loc[p].body
    IN  /\ pc[p] = "commit" /\ pc'[p] = "fetch"
           => /\ body.questions.given
                   => assessments'[id].questions = Supplied(body.questions.list)
              /\ ~body.questions.given
                   => assessments'[id].questions = assessments[id].questions
        /\ pc[p] = "rollback" /\ pc'[p] = "done"
           => /\ assessments' = assessments
              /\ loc'[p].resp.code = 500
        /\ pc[p] = "check" /\ pc'[p] = "done"
           => /\ assessments' = assessments
              /\ id \notin DOMAIN assessments \/ ~assessScope(loc[p].caller, assessments[id])
                   => loc'[p].resp.code = 404
        /\ pc[p] = "commit" /\ pc'[p] = "fetch"
             /\ (id \notin DOMAIN assessments \/ ~assessScope(loc[p].caller, assessments[id]))
           => assessments' = assessments

\* C39: updateAssessment with a questions array replaces the whole question and option
\* tree in one transaction: the COMMIT leaves exactly the supplied questions and options
\* stored, a failure leaves the assessment's fields and previous tree as they were, an
\* assessment outside the caller's scope or missing is answered 404 with nothing
\* changed, so no COMMIT changes an assessment that is outside its caller's scope.
C39_ReplaceTreeOrNothing == [][C39_Step]_vars

====
